---- MODULE Spec2Model ----
(***************************************************************************)
(* The terminal dashboard of src/src/cmterm: two prioritised input         *)
(* channels (Input), the Logs bound to them, the render thread and the     *)
(* key-reading thread of Manager, and the caller threads that block in     *)
(* request_string / request_password / wait_for_enter.                     *)
(***************************************************************************)
EXTENDS Integers, Sequences, FiniteSets, TLC

\* ------------------------------------------------------------ bounds
\* Keys the terminal delivers in one run.
MaxKeys == 2
\* Redraw signals that may sit unread in the redraw channel.
MaxRedraw == 1
\* Keys the terminal delivers in one run of the single-caller specification.
MaxTyped == 3
\* Appends made in one run of the logging specification.
MaxAppends == 2
\* Largest capacity of the RingBuffer specified on its own.
MaxCap == 3
\* Pushes into the RingBuffer specified on its own.
MaxPushes == 4
\* Calls of Log::set in one run of the binding specification.
MaxSets == 3
\* Most Logs rendered side by side, and widest terminal, of the column
\* partition specified on its own.
MaxLogs == 3
MaxColumns == 81
\* Redraw signals that may sit unread in the redraw channel in the runs of
\* the redraw specification.
MaxPending == 2

\* ------------------------------------------------------------ universe
Channels == {"H", "L"}
Logs == {"Main Thread", "Server Thread"}
\* The main thread holds main_log (program_info.rs); "other" is any other thread,
\* holding either Log.
Threads == {"main", "other"}
ThreadLogs(t) == IF t = "main" THEN {"Main Thread"} ELSE Logs
Modes == {"string", "password", "enter"}
KeyChars == {"a"}
Keys == KeyChars \cup {"Backspace", "Enter", "Tab"}
\* The keys typed in the runs of the whole dashboard.
DashKeys == {"a", "Enter"}
\* The requests made in the runs of the whole dashboard.
DashModes == {"string", "enter"}
\* The requests made in the runs of the single-caller specification.
InputModes == {"string", "password"}

\* RingBuffer<String, 256> of _TerminalLogData.
RingCapacity == 256

NoThread == "none"
NoKey == [id |-> 0, key |-> "none", dis |-> FALSE]
NoResult == <<"pending">>

\* Manager::new: main_log is bound to the low-priority channel, server_log
\* to the high-priority one.
LogInput(l) == IF l = "Main Thread" THEN "L" ELSE "H"

InputLog(c) == IF c = "L" THEN "Main Thread" ELSE "Server Thread"

\* The prompt a caller passes; every call of the model passes the same one.
Prompt == <<"N", ":", " ">>

VARIABLES
    pc,          \* caller thread -> position in Log::request_* / Input::request_input
    chan,        \* caller thread -> channel of its current request
    mode,        \* caller thread -> input_fn of its current request
    cur,         \* caller thread -> key returned by _read_char
    password,    \* caller thread -> local `password` of _wait_for_password
    result,      \* caller thread -> `result` of request_input
    inputting,   \* channel -> holder of Mutex<Receiver<Key>>
    queue,       \* channel -> keys sent and not yet received
    input_state, \* channel -> _InputData
    input_in_use,   \* channel -> AtomicBool
    input_disabled, \* channel -> AtomicBool
    data_lock,   \* log -> holder of Mutex<_TerminalLogData>
    log_data,    \* log -> _TerminalLogData (the title is the log's name)
    mirror,      \* log -> bytes of the disk mirror file of the log
    logArgs,     \* caller thread -> log, message and level of its append
    nappends,    \* appends begun so far
    owed,        \* history: log -> lines of all the messages passed to its appends
    swallowed,   \* history: log -> appends completed after a failed mirror write
    redraw,      \* messages pending in the redraw channel
    rPc,         \* render thread position
    highp_in_use, \* render thread local
    ilPc,        \* key-reading thread position
    key,         \* key-reading thread: the key being fanned out
    nkeys,       \* keys the terminal has returned so far
    drainAt,     \* history: channel -> keys sent to it when its request drained
    used,        \* history: channel -> keys its current request consumed
    gated,       \* history: channel -> disabled at some time since the drain
    unsignalled, \* history: channel -> its request state changed and no redraw was sent since
    ring,          \* a RingBuffer<T, S> on its own
    pushed,      \* history: the values pushed into ring, in push order
    peeked,      \* the Vec the last peek_last_n returned, with its argument
    thread_logger, \* thread -> THREAD_LOGGER of the thread
    got,         \* thread -> what its last Log::get came to
    sets,        \* history: thread -> the Logs it passed to Log::set, in order
    widths,      \* the last call of log_widths: its arguments and its result
    redrawCap,   \* the bound of the run on the messages pending in the redraw channel
    kPc,         \* kill coordinator thread position
    stop,        \* the stop channel of spawn_threads: a message sent, or its Sender dropped
    ikill,       \* messages pending in the kill channel of the key-reading thread
    rkill,       \* messages pending in the kill channel of the render thread
    frame,       \* render thread: the locals of Renderer::render and what it drew
    logLoop,     \* caller thread -> msg_lines left and current_prefix in the loop of _log
    keyTrace,    \* history: the keys read and the keys sent to each channel, where recorded
    readkey      \* the "input readkey" workers: those reading, and the keys of those returned

vars == <<pc, chan, mode, cur, password, result, inputting, queue, input_state,
          input_in_use, input_disabled, data_lock, log_data, mirror, logArgs,
          nappends, owed, swallowed, redraw, rPc, highp_in_use, ilPc, key, nkeys, drainAt, used,
          gated, unsignalled, ring, pushed, peeked, thread_logger, got, sets,
          widths, redrawCap, kPc, stop, ikill, rkill, frame, logLoop, keyTrace,
          readkey>>

\* The variables of the parts that are also specified on their own.
ringVars == <<ring, pushed, peeked>>
bindVars == <<thread_logger, got, sets>>
killVars == <<kPc, stop, ikill, rkill>>
viewVars == <<frame, logLoop, keyTrace, readkey>>
partVars == <<ringVars, bindVars, widths, redrawCap, killVars, viewVars>>
dashVars == <<pc, chan, mode, cur, password, result, inputting, queue,
              input_state, input_in_use, input_disabled, data_lock, log_data,
              mirror, logArgs, nappends, owed, swallowed, redraw, rPc, highp_in_use, ilPc, key,
              nkeys, drainAt, used, gated, unsignalled>>

logVars == <<log_data, mirror, logArgs, nappends, owed, swallowed>>

callerVars == <<pc, chan, mode, cur, password, result>>
renderVars == <<rPc, highp_in_use>>
keyVars == <<ilPc, key, nkeys>>
histVars == <<drainAt, used, gated, unsignalled>>

EmptyInputData ==
    [input_pos |-> 0, input_buffer |-> <<>>, input_prompt |-> <<>>, input_requester |-> ""]

\* ------------------------------------------------------------ Input
\* Input::is_inputting
IsInputting(c) == input_in_use[c]

\* Input::is_disabled
IsDisabled(c) == input_disabled[c]

\* request_input line 79: the receiver mutex can be taken.
InputtingFree_NoMutex(c) == TRUE

InputtingFree(c) == inputting[c] = NoThread

\* request_input line 83: input_recv.try_iter().count() empties the endpoint.
TryIterCount_KeepPending(q) == q

TryIterCount(q) == <<>>

\* request_input lines 87-93.
ResetInputData_KeepBuffer(d, l, m) ==
    [d EXCEPT !.input_requester = l, !.input_pos = 0, !.input_prompt = Prompt]

ResetInputData(d, l, m) ==
    [input_pos |-> 0, input_buffer |-> <<>>, input_prompt |-> Prompt,
     input_requester |-> l]

\* _read_char line 205: termread_valid.
TermreadValid_Always(c) == TRUE

TermreadValid(c) == ~IsDisabled(c)

Pop(s) == SubSeq(s, 1, Len(s) - 1)

\* _wait_for_string lines 118-137: the effect of one key on _InputData.
StringKey_BackspaceKeepsBuffer(d, k) ==
    CASE k \in KeyChars ->
           [d EXCEPT !.input_buffer = Append(@, k), !.input_pos = @ + 1]
      [] OTHER -> d

StringKey(d, k) ==
    CASE k \in KeyChars ->
           [d EXCEPT !.input_buffer = Append(@, k), !.input_pos = @ + 1]
      [] k = "Backspace" ->
           IF Len(d.input_buffer) > 0
           THEN [d EXCEPT !.input_buffer = Pop(@), !.input_pos = @ - 1]
           ELSE d
      [] OTHER -> d

\* _wait_for_password lines 173-194: the effect of one key on _InputData ...
PasswordKey(d, k) ==
    CASE k \in KeyChars ->
           [d EXCEPT !.input_buffer = Append(@, "*"), !.input_pos = @ + 1]
      [] k = "Backspace" ->
           IF Len(d.input_buffer) > 0
           THEN [d EXCEPT !.input_buffer = Pop(@), !.input_pos = @ - 1]
           ELSE d
      [] OTHER -> d

\* ... and on the local `password` (d is _InputData before the key).
PasswordShadow_BackspaceKeepsSecret(d, p, k) ==
    IF k \in KeyChars THEN Append(p, k) ELSE p

PasswordShadow(d, p, k) ==
    CASE k \in KeyChars -> Append(p, k)
      [] k = "Backspace" -> IF Len(d.input_buffer) > 0 THEN Pop(p) ELSE p
      [] OTHER -> p

\* The value each input_fn returns after its loop breaks:
\* _wait_for_string line 142, _wait_for_password line 199, _wait_for_enter line 160.
\* _wait_for_enter, the match on a key other than Enter: `_ => ()`.
EnterKey_Echoes(d, k) == StringKey(d, k)

EnterKey(d, k) == d

InputFnResult(m, d, p) ==
    CASE m = "string" -> d.input_buffer
      [] m = "password" -> d.input_buffer
      [] OTHER -> <<>>

\* A send on the redraw channel (request_redraw.send(())): it succeeds
\* while the Receiver lives, that is unless the render thread has panicked and
\* dropped the Manager it owned.
RedrawSend == rPc # "panicked" /\ redraw < redrawCap /\ redraw' = redraw + 1

\* Keys sent to channel c so far by the fan-out of input_loop.
SentCount(c) ==
    IF ilPc = "fanH" \/ (ilPc = "fanL" /\ c = "L")
    THEN nkeys - 1
    ELSE nkeys

\* ------------------------------------------------------------ RingBuffer
\* The width of usize on the 64-bit targets the program is built for.
UsizeBits == 64

\* RingBuffer::new: S values T::default(), position 0. `inner` lists the
\* slots written so far; a slot of 0..S-1 never written holds T::default().
RingNew(S, default) ==
    [size |-> S, default |-> default, inner |-> [i \in {} |-> default],
     position |-> 0]

\* The const parameter S of a RingBuffer<T, S>.
RingSize(r) == r.size

\* self.inner[i]
RingSlot(r, i) == IF i \in DOMAIN r.inner THEN r.inner[i] ELSE r.default

\* self.inner[i] = element
RingWrite(r, i, element) ==
    [j \in (DOMAIN r.inner) \cup {i} |-> IF j = i THEN element ELSE r.inner[j]]

\* RingBuffer::push: the position advances first, so the first push writes
\* slot 1 and slot 0 is written by push number S.
RingPush_WriteThenAdvance(r, element) ==
    [r EXCEPT !.inner = RingWrite(r, r.position, element),
              !.position = (r.position + 1) % RingSize(r)]

RingPush(r, element) ==
    LET p == (r.position + 1) % RingSize(r)
    IN [r EXCEPT !.inner = RingWrite(r, p, element), !.position = p]

\* 2^e modulo m.
Pow2Mod(e, m) ==
    LET p[k \in 0..e] == IF k = 0 THEN 1 % m ELSE (2 * p[k - 1]) % m
    IN p[e]

\* (position.overflowing_sub(i).0) % S: the difference wraps modulo
\* 2^UsizeBits before it is reduced modulo S (for i <= S).
PeekIndex_NoWrap(position, i, S) == (position + S - i) % S

PeekIndex(position, i, S) ==
    IF position >= i THEN (position - i) % S
    ELSE (Pow2Mod(UsizeBits, S) + S + position - i) % S

\* RingBuffer::peek_last_n: for i in 0..n the slot i places behind the
\* position, the most recent first.
PeekLastN_OldestFirst(r, n) ==
    [j \in 1..n |-> RingSlot(r, PeekIndex(r.position, n - j, RingSize(r)))]

PeekLastN(r, n) ==
    [j \in 1..n |-> RingSlot(r, PeekIndex(r.position, j - 1, RingSize(r)))]

\* The values pushed into the RingBuffer specified on its own; T::default()
\* of its element type.
RingValues == {"x", "y"}
RingDefault == ""
NoPeek == [n |-> -1, vec |-> <<>>]

\* push(element) on the RingBuffer specified on its own.
RingPushOp(element) ==
    /\ ring' = RingPush(ring, element)
    /\ pushed' = Append(pushed, element)
    /\ peeked' = NoPeek
    /\ UNCHANGED <<dashVars, bindVars, widths, redrawCap, viewVars, killVars>>

\* peek_last_n(n) with n <= S, which debug_assert requires.
RingPeek(n) ==
    /\ n <= RingSize(ring)
    /\ peeked' = [n |-> n, vec |-> PeekLastN(ring, n)]
    /\ UNCHANGED <<ring, pushed, dashVars, bindVars, widths, redrawCap, viewVars, killVars>>

\* ------------------------------------------------------------ Log
Levels == {"info", "warn", "err", "success"}

\* The PREFIX of log, log_warn, log_err, log_success (without its styling).
LevelPrefix(level) ==
    CASE level = "info" -> "   INFO:"
      [] level = "warn" -> "   WARN:"
      [] level = "err" -> "  ERROR:"
      [] OTHER -> "SUCCESS:"

\* _log line 114: as many spaces as the prefix is wide; every prefix has 8 columns.
PrefixEmpty(level) == "        "

\* str::lines: the message cut at its line feeds; a last line feed ends the
\* last line and starts no empty one.
RECURSIVE StrLines(_)
StrLines(msg) ==
    IF msg = <<>> THEN <<>>
    ELSE IF \E i \in 1..Len(msg) : msg[i] = "\n"
         THEN LET i == CHOOSE j \in 1..Len(msg) :
                           msg[j] = "\n" /\ \A h \in 1..(j - 1) : msg[h] # "\n"
              IN <<SubSeq(msg, 1, i - 1)>> \o StrLines(SubSeq(msg, i + 1, Len(msg)))
         ELSE <<msg>>

\* replace('\t', "  ") on the text of a line.
RECURSIVE ReplaceTabs(_)
ReplaceTabs(line) ==
    IF line = <<>> THEN <<>>
    ELSE (IF Head(line) = "\t" THEN <<" ", " ">> ELSE <<Head(line)>>)
             \o ReplaceTabs(Tail(line))

\* _log line 121: the prefix, a space and the styled line, tabs replaced.
FinalLine(prefix, level, line) ==
    <<prefix, " ", [style |-> level, text |-> ReplaceTabs(line)]>>

\* _log lines 119-124: every line of the message pushed, the first with the
\* level's prefix and the others with the blank one.
RECURSIVE PushLines(_, _, _, _)
PushLines(rb, lines, level, first) ==
    IF lines = <<>> THEN rb
    ELSE PushLines(RingPush(rb, FinalLine(IF first THEN LevelPrefix(level)
                                                   ELSE PrefixEmpty(level),
                                          level, Head(lines))),
                   Tail(lines), level, FALSE)

NoArgs == [log |-> "none", msg |-> <<>>, level |-> "none", filed |-> "none"]

\* The lines of a message that ends in no line feed: the text between its
\* line feeds.
Breaks(msg) == {0, Len(msg) + 1} \cup {i \in 1..Len(msg) : msg[i] = "\n"}
MsgLines(msg) ==
    LET B == Breaks(msg)
        Nth(j) == CHOOSE b \in B : Cardinality({c \in B : c < b}) = j - 1
    IN [j \in 1..(Cardinality(B) - 1) |-> SubSeq(msg, Nth(j) + 1, Nth(j + 1) - 1)]

\* Log::log / log_warn / log_err / log_success are entered: _log is called.
LogCall(t, l, msg, level) ==
    /\ pc[t] = "idle"
    /\ logArgs' = [logArgs EXCEPT
                     ![t] = [log |-> l, msg |-> msg, level |-> level, filed |-> "none"]]
    /\ nappends' = nappends + 1
    /\ owed' = [owed EXCEPT ![l] = @ + Len(MsgLines(msg))]
    /\ pc' = [pc EXCEPT ![t] = "file_log"]
    /\ UNCHANGED <<partVars, chan, mode, cur, password, result, inputting, queue,
                   input_state, input_in_use, input_disabled, data_lock,
                   log_data, mirror, swallowed, redraw, renderVars, keyVars,
                   histVars>>

\* What _file_log can come to: no path is configured (get_disk_log gives
\* Ok(None)); the file cannot be opened; the write fails; the write is short
\* (Ok(n) with n below the length); the write is whole.
FileOutcomes(path) ==
    IF path = "none" THEN {"nopath"} ELSE {"noopen", "err", "part", "all"}

\* The bytes File::write puts at the end of the file opened for appending:
\* the message as passed, before any styling; a short write is modelled as
\* all but the last byte.
FileWrite_FormattedLines(bytes, msg, out) ==
    IF out = "all" THEN bytes \o <<"   INFO:", " ">> \o msg ELSE bytes

FileWrite(bytes, msg, out) ==
    CASE out = "all" -> bytes \o msg
      [] out = "part" -> bytes \o SubSeq(msg, 1, Len(msg) - 1)
      [] OTHER -> bytes

\* Where _log goes on after _file_log: every arm of _file_log's match gives
\* (), and the result of write is dropped.
AfterFileLog_FailureReturns(out) ==
    IF out \in {"nopath", "all"} THEN "log_lock" ELSE "idle"

AfterFileLog(out) == "log_lock"

\* _log line 112, _file_log and get_disk_log: `data` is locked to read the
\* path and released; with a path the file is opened for appending and the
\* message bytes are written to it.
FileLog(t, out) ==
    /\ pc[t] = "file_log"
    /\ data_lock[logArgs[t].log] = NoThread
    /\ out \in FileOutcomes(log_data[logArgs[t].log].disk_log_path)
    /\ mirror' = [mirror EXCEPT
                    ![logArgs[t].log] = FileWrite(@, logArgs[t].msg, out)]
    /\ logArgs' = [logArgs EXCEPT ![t].filed = out]
    /\ pc' = [pc EXCEPT ![t] = AfterFileLog(out)]
    /\ UNCHANGED <<partVars, chan, mode, cur, password, result, inputting, queue,
                   input_state, input_in_use, input_disabled, data_lock,
                   log_data, nappends, owed, swallowed, redraw, renderVars,
                   keyVars, histVars>>

\* _log line 118.
LogLock(t) ==
    /\ pc[t] = "log_lock"
    /\ data_lock[logArgs[t].log] = NoThread
    /\ data_lock' = [data_lock EXCEPT ![logArgs[t].log] = t]
    /\ pc' = [pc EXCEPT ![t] = "log_push"]
    /\ UNCHANGED <<partVars, chan, mode, cur, password, result, inputting, queue,
                   input_state, input_in_use, input_disabled, logVars, redraw,
                   renderVars, keyVars, histVars>>

\* _log lines 119-126: the lines are pushed and the guard is dropped.
LogPush(t) ==
    /\ pc[t] = "log_push"
    /\ log_data' = [log_data EXCEPT
                      ![logArgs[t].log].lines =
                          PushLines(@, StrLines(logArgs[t].msg), logArgs[t].level, TRUE)]
    /\ data_lock' = [data_lock EXCEPT ![logArgs[t].log] = NoThread]
    /\ swallowed' = [swallowed EXCEPT
                       ![logArgs[t].log] =
                           IF logArgs[t].filed \in {"noopen", "err", "part"}
                           THEN @ + 1 ELSE @]
    /\ logArgs' = [logArgs EXCEPT ![t] = NoArgs]
    /\ pc' = [pc EXCEPT ![t] = "idle"]
    /\ UNCHANGED <<partVars, chan, mode, cur, password, result, inputting, queue,
                   input_state, input_in_use, input_disabled, mirror, nappends,
                   owed, redraw, renderVars, keyVars, histVars>>

\* The locals of the loop of _log outside the loop.
NoLoop == [msg_lines |-> <<>>, current_prefix |-> ""]

\* self.data.lock() / log.data.lock() returns once no thread holds the guard.
LogDataFree_NoLock(l) == TRUE

LogDataFree(l) == data_lock[l] = NoThread

\* _log lines 114-118, the loop of _log taken line by line: msg_lines is
\* collected, current_prefix is the prefix, `data` is locked.
LogLockLines(t) ==
    /\ pc[t] = "log_lock"
    /\ LogDataFree(logArgs[t].log)
    /\ data_lock' = [data_lock EXCEPT ![logArgs[t].log] = t]
    /\ logLoop' = [logLoop EXCEPT
                     ![t] = [msg_lines |-> StrLines(logArgs[t].msg),
                             current_prefix |-> LevelPrefix(logArgs[t].level)]]
    /\ pc' = [pc EXCEPT ![t] = "log_line"]
    /\ UNCHANGED <<ringVars, bindVars, widths, redrawCap, killVars, frame,
                   keyTrace, readkey, chan, mode, cur, password, result, inputting,
                   queue, input_state, input_in_use, input_disabled, logVars,
                   redraw, renderVars, keyVars, histVars>>

\* _log lines 119-123, one round of the loop: the line is styled, prefixed
\* and pushed, and current_prefix becomes the blank one.
LogPushLine(t) ==
    /\ pc[t] = "log_line"
    /\ logLoop[t].msg_lines # <<>>
    /\ log_data' = [log_data EXCEPT
                      ![logArgs[t].log].lines =
                          RingPush(@, FinalLine(logLoop[t].current_prefix,
                                                logArgs[t].level,
                                                Head(logLoop[t].msg_lines)))]
    /\ logLoop' = [logLoop EXCEPT
                     ![t] = [msg_lines |-> Tail(@.msg_lines),
                             current_prefix |-> PrefixEmpty(logArgs[t].level)]]
    /\ UNCHANGED <<ringVars, bindVars, widths, redrawCap, killVars, frame,
                   keyTrace, readkey, pc, chan, mode, cur, password, result, inputting,
                   queue, input_state, input_in_use, input_disabled, data_lock,
                   mirror, logArgs, nappends, owed, swallowed, redraw,
                   renderVars, keyVars, histVars>>

\* _log line 126: the loop is over, _log returns and drops the guard.
LogUnlock(t) ==
    /\ pc[t] = "log_line"
    /\ logLoop[t].msg_lines = <<>>
    /\ data_lock' = [data_lock EXCEPT
                       ![logArgs[t].log] = IF @ = t THEN NoThread ELSE @]
    /\ swallowed' = [swallowed EXCEPT
                       ![logArgs[t].log] =
                           IF logArgs[t].filed \in {"noopen", "err", "part"}
                           THEN @ + 1 ELSE @]
    /\ logArgs' = [logArgs EXCEPT ![t] = NoArgs]
    /\ logLoop' = [logLoop EXCEPT ![t] = NoLoop]
    /\ pc' = [pc EXCEPT ![t] = "idle"]
    /\ UNCHANGED <<ringVars, bindVars, widths, redrawCap, killVars, frame,
                   keyTrace, readkey, chan, mode, cur, password, result, inputting,
                   queue, input_state, input_in_use, input_disabled, log_data,
                   mirror, nappends, owed, redraw, renderVars, keyVars,
                   histVars>>

\* ------------------------------------------------------------ thread binding
\* THREAD_LOGGER is thread_local: each thread reads and writes the value of
\* its own.
Binding_ProcessWide(tl, t) ==
    IF \E u \in Threads : tl[u] # "none"
    THEN tl[CHOOSE u \in Threads : tl[u] # "none"]
    ELSE "none"

Binding(tl, t) == tl[t]

\* Log::set, the match on the thread's binding: None takes `to`, Some(s)
\* keeps s.
SetBinding_Rebinds(old, to) == to

SetBinding(old, to) == IF old = "none" THEN to ELSE old

\* Log::thread_name: the thread's name (or its id when it has none).
ThreadName(t) == t

\* The warn_msg of Log::set.
WarnMsg(t) ==
    <<"Attempt to set logger as thread logger for already initialized thread ",
      ThreadName(t)>>

\* The Logs Log::set warns on, in the order of the calls: `to`, then the bound
\* Log; none when the thread is unbound or `to` is the bound Log (Arc::ptr_eq).
WarnedLogs(old, to) == IF old = "none" \/ old = to THEN <<>> ELSE <<to, old>>

\* log_warn(msg) on each Log of a sequence, each whole: the mirror write with
\* its outcome, then the push of the lines.
RECURSIVE WarnData(_, _, _)
WarnData(ld, ls, msg) ==
    IF ls = <<>> THEN ld
    ELSE WarnData([ld EXCEPT ![Head(ls)].lines =
                       PushLines(@, StrLines(msg), "warn", TRUE)],
                  Tail(ls), msg)

RECURSIVE WarnMirror(_, _, _, _)
WarnMirror(mr, ls, msg, outs) ==
    IF ls = <<>> THEN mr
    ELSE WarnMirror([mr EXCEPT ![Head(ls)] = FileWrite(@, msg, outs[Head(ls)])],
                    Tail(ls), msg, outs)

\* Log::get: the thread's binding, or the panic of an unbound thread.
GetResult(b) == IF b = "none" THEN "panic" ELSE b

\* Log::set(to) on thread t, with the outcome of the mirror write of each Log.
LogSet(t, to, outs) ==
    /\ pc[t] = "idle"
    /\ got[t] # "panic"
    /\ LET old == Binding(thread_logger, t)
           ls == WarnedLogs(old, to)
       IN /\ \A l \in Logs : /\ data_lock[l] = NoThread
                              /\ outs[l] \in FileOutcomes(log_data[l].disk_log_path)
          /\ thread_logger' = [thread_logger EXCEPT ![t] = SetBinding(old, to)]
          /\ log_data' = WarnData(log_data, ls, WarnMsg(t))
          /\ mirror' = WarnMirror(mirror, ls, WarnMsg(t), outs)
          /\ owed' = [l \in Logs |->
                         owed[l] + Len(SelectSeq(ls, LAMBDA x : x = l))
                                     * Len(MsgLines(WarnMsg(t)))]
    /\ sets' = [sets EXCEPT ![t] = Append(@, to)]
    /\ UNCHANGED <<got, ringVars, widths, redrawCap, viewVars, killVars, pc, chan, mode, cur, password, result,
                   inputting, queue, input_state, input_in_use, input_disabled,
                   data_lock, logArgs, nappends, swallowed, redraw, renderVars,
                   keyVars, histVars>>

\* Log::get on thread t; the panic ends the thread.
LogGet(t) ==
    /\ pc[t] = "idle"
    /\ got[t] # "panic"
    /\ got' = [got EXCEPT ![t] = GetResult(Binding(thread_logger, t))]
    /\ UNCHANGED <<thread_logger, sets, ringVars, widths, redrawCap, viewVars, killVars, dashVars>>

\* ------------------------------------------------------------ Renderer
\* Renderer::log_widths, the body of the loop: the size of the next Log.
LogSize_NoRemainder(width_equal, width_remainder) == width_equal

LogSize(width_equal, width_remainder) ==
    IF width_remainder > 0 THEN width_equal + 1 ELSE width_equal

\* Renderer::log_widths, the loop over the Logs with its two locals.
RECURSIVE WidthsLoop(_, _, _, _)
WidthsLoop(left, width_equal, width_remainder, acc) ==
    IF left = 0 THEN acc
    ELSE WidthsLoop(left - 1, width_equal,
                    IF width_remainder > 0 THEN width_remainder - 1
                                           ELSE width_remainder,
                    Append(acc, LogSize(width_equal, width_remainder)))

\* Renderer::log_widths(rendering, columns) for n = rendering.len() >= 1.
LogWidths(n, columns) == WidthsLoop(n, columns \div n, columns % n, <<>>)

NoWidths == [n |-> 0, columns |-> 0, result |-> <<>>]

\* A call of log_widths with n Logs and a terminal of `columns` columns.
LogWidthsCall(n, columns) ==
    /\ widths' = [n |-> n, columns |-> columns, result |-> LogWidths(n, columns)]
    /\ UNCHANGED <<ringVars, bindVars, redrawCap, viewVars, killVars, dashVars>>

\* ------------------------------------------------------------ callers
\* Log::name: the guard on `data` after the statement that cloned the title.
NameGuard_Held(t) == t

NameGuard(t) == NoThread

\* Log::request_string / request_password / wait_for_enter, lines 149-160:
\* self.name() locks `data`, clones the title and drops the guard; then the
\* call of Input::request_* is made.
Call(t, l, m) ==
    /\ pc[t] = "idle"
    /\ data_lock[l] = NoThread
    /\ data_lock' = [data_lock EXCEPT ![l] = NameGuard(t)]
    /\ pc' = [pc EXCEPT ![t] = "lock"]
    /\ chan' = [chan EXCEPT ![t] = LogInput(l)]
    /\ mode' = [mode EXCEPT ![t] = m]
    /\ UNCHANGED <<partVars, logVars, cur, password, result, inputting, queue, input_state,
                   input_in_use, input_disabled, redraw, renderVars, keyVars,
                   histVars>>

\* request_input lines 79-93: take the receiver mutex, drain the endpoint,
\* reset _InputData.
Begin(t) ==
    /\ pc[t] = "lock"
    /\ InputtingFree(chan[t])
    /\ inputting' = [inputting EXCEPT ![chan[t]] = t]
    /\ queue' = [queue EXCEPT ![chan[t]] = TryIterCount(@)]
    /\ input_state' = [input_state EXCEPT
                         ![chan[t]] = ResetInputData(@, InputLog(chan[t]), mode[t])]
    /\ drainAt' = [drainAt EXCEPT ![chan[t]] = SentCount(chan[t])]
    /\ used' = [used EXCEPT ![chan[t]] = <<>>]
    /\ gated' = [gated EXCEPT ![chan[t]] = IsDisabled(chan[t])]
    /\ unsignalled' = [unsignalled EXCEPT ![chan[t]] = TRUE]
    /\ pc' = [pc EXCEPT ![t] = "set_inputting"]
    /\ UNCHANGED <<partVars, logVars, chan, mode, cur, password, result, input_in_use,
                   input_disabled, data_lock, redraw, renderVars, keyVars>>

\* request_input lines 94-96: the requesting flag is set and the redraw signal
\* sent; then input_fn is entered.
SetInputting(t) ==
    /\ pc[t] = "set_inputting"
    /\ input_in_use' = [input_in_use EXCEPT ![chan[t]] = TRUE]
    /\ RedrawSend
    /\ unsignalled' = [unsignalled EXCEPT ![chan[t]] = FALSE]
    /\ pc' = [pc EXCEPT ![t] = "wait_for_enabled"]
    /\ UNCHANGED <<partVars, logVars, chan, mode, cur, password, result, inputting, queue,
                   input_state, input_disabled, data_lock, renderVars, keyVars,
                   drainAt, used, gated>>

\* wait_for_enabled, lines 65-68, leaves its loop once is_disabled() is false
\* (while it is true the thread only parks and polls again); then the redraw
\* signal of the round: lines 116, 150, 171.
WaitForEnabled(t) ==
    /\ pc[t] = "wait_for_enabled"
    /\ ~IsDisabled(chan[t])
    /\ RedrawSend
    /\ unsignalled' = [unsignalled EXCEPT ![chan[t]] = FALSE]
    /\ pc' = [pc EXCEPT ![t] = "read_char"]
    /\ UNCHANGED <<partVars, logVars, chan, mode, cur, password, result, inputting, queue,
                   input_state, input_in_use, input_disabled, data_lock,
                   renderVars, keyVars, drainAt, used, gated>>

\* _read_char lines 203-211: recv() blocks until a key is queued; the key is
\* Some(key) if the channel is enabled, else None, and with None the loop of
\* the input_fn goes round.
ReadChar(t) ==
    /\ pc[t] = "read_char"
    /\ queue[chan[t]] # <<>>
    /\ queue' = [queue EXCEPT ![chan[t]] = Tail(@)]
    /\ IF TermreadValid(chan[t])
       THEN /\ pc' = [pc EXCEPT ![t] = "match_key"]
            /\ cur' = [cur EXCEPT ![t] = Head(queue[chan[t]])]
       ELSE /\ pc' = [pc EXCEPT ![t] = "wait_for_enabled"]
            /\ cur' = cur
    /\ UNCHANGED <<partVars, logVars, chan, mode, password, result, inputting, input_state,
                   input_in_use, input_disabled, data_lock, redraw, renderVars,
                   keyVars, histVars>>

\* Where the loop of an input_fn goes on after a key that is not Enter: to
\* its top, wait_for_enabled and the redraw signal of the round.
NextRound_AtReadChar == "read_char"

NextRound == "wait_for_enabled"

\* The match on Some(k) of _wait_for_string, _wait_for_enter, _wait_for_password;
\* after the break, the value the input_fn returns.
MatchKey(t) ==
    /\ pc[t] = "match_key"
    /\ LET c == chan[t]
           k == cur[t].key
           d == input_state[c]
       IN /\ used' = [used EXCEPT ![c] = Append(@, cur[t])]
          /\ IF k = "Enter"
             THEN /\ result' = [result EXCEPT
                                  ![t] = InputFnResult(mode[t], d, password[t])]
                  /\ pc' = [pc EXCEPT ![t] = "clear_inputting"]
                  /\ UNCHANGED <<input_state, password>>
             ELSE /\ input_state' =
                       [input_state EXCEPT
                          ![c] = CASE mode[t] = "string" -> StringKey(d, k)
                                   [] mode[t] = "password" -> PasswordKey(d, k)
                                   [] OTHER -> EnterKey(d, k)]
                  /\ password' =
                       [password EXCEPT
                          ![t] = IF mode[t] = "password"
                                 THEN PasswordShadow(d, @, k)
                                 ELSE @]
                  /\ pc' = [pc EXCEPT ![t] = NextRound]
                  /\ UNCHANGED result
    /\ cur' = [cur EXCEPT ![t] = NoKey]
    /\ unsignalled' = [unsignalled EXCEPT
                         ![chan[t]] = @ \/ input_state'[chan[t]] # input_state[chan[t]]]
    /\ UNCHANGED <<partVars, logVars, chan, mode, inputting, queue, input_in_use, input_disabled,
                   data_lock, redraw, renderVars, keyVars, drainAt, gated>>

\* request_input line 97.
ClearInputting(t) ==
    /\ pc[t] = "clear_inputting"
    /\ input_in_use' = [input_in_use EXCEPT ![chan[t]] = FALSE]
    /\ pc' = [pc EXCEPT ![t] = "redraw_end"]
    /\ unsignalled' = [unsignalled EXCEPT ![chan[t]] = TRUE]
    /\ UNCHANGED <<partVars, logVars, chan, mode, cur, password, result, inputting, queue,
                   input_state, input_disabled, data_lock, redraw, renderVars,
                   keyVars, drainAt, used, gated>>

\* request_input lines 99-101: the last redraw signal, the return of `result`
\* to the caller, and the drop of the receiver guard and of the locals.
Return(t) ==
    /\ pc[t] = "redraw_end"
    /\ RedrawSend
    /\ unsignalled' = [unsignalled EXCEPT ![chan[t]] = FALSE]
    /\ inputting' = [inputting EXCEPT ![chan[t]] = IF @ = t THEN NoThread ELSE @]
    /\ data_lock' = [l \in Logs |-> IF data_lock[l] = t THEN NoThread ELSE data_lock[l]]
    /\ password' = [password EXCEPT ![t] = <<>>]
    /\ result' = [result EXCEPT ![t] = NoResult]
    /\ chan' = [chan EXCEPT ![t] = "L"]
    /\ mode' = [mode EXCEPT ![t] = "string"]
    /\ drainAt' = [drainAt EXCEPT ![chan[t]] = 0]
    /\ used' = [used EXCEPT ![chan[t]] = <<>>]
    /\ gated' = [gated EXCEPT ![chan[t]] = FALSE]
    /\ pc' = [pc EXCEPT ![t] = "idle"]
    /\ UNCHANGED <<partVars, logVars, cur, queue, input_state, input_in_use, input_disabled,
                   renderVars, keyVars>>

\* The receiver mutex after its guard was dropped by a panicking thread.
Poisoned == "poisoned"

\* request_input lines 94-99 and the input_fn lines 116, 150, 171:
\* request_redraw.send(()).unwrap() when the render thread has panicked and
\* the Receiver is gone: the caller panics where it stands. At line 95 the
\* flag has just been stored; nothing stores it on the way out, and unwinding
\* drops the guard of `inputting`.
RequestPanics(t) ==
    /\ pc[t] \in {"set_inputting", "wait_for_enabled", "redraw_end"}
    /\ pc[t] = "wait_for_enabled" => ~IsDisabled(chan[t])
    /\ rPc = "panicked"
    /\ input_in_use' = [input_in_use EXCEPT
                          ![chan[t]] = IF pc[t] = "set_inputting" THEN TRUE ELSE @]
    /\ inputting' = [inputting EXCEPT ![chan[t]] = Poisoned]
    /\ pc' = [pc EXCEPT ![t] = "panicked"]
    /\ UNCHANGED <<partVars, logVars, chan, mode, cur, password, result, queue,
                   input_state, input_disabled, data_lock, redraw, renderVars,
                   keyVars, histVars>>

\* ------------------------------------------------------------ render thread
\* render_loop lines 58-66: recv_timeout returns on a signal or on the timeout,
\* then the high-priority flag is read.
RenderWake ==
    /\ rPc = "recv_timeout"
    /\ \/ redraw > 0 /\ redraw' = redraw - 1
       \/ redraw = 0 /\ redraw' = redraw
    /\ highp_in_use' = IsInputting("H")
    /\ rPc' = "set_disabled"
    /\ UNCHANGED <<partVars, logVars, callerVars, inputting, queue, input_state, input_in_use,
                   input_disabled, data_lock, keyVars, histVars>>

\* render_loop line 67: the value given to term_input_lowp.set_disabled.
LowpDisabled_Inverted(h) == ~h

LowpDisabled(h) == h

\* render_loop line 67: the channel whose disabled flag the pass stores,
\* term_input_lowp.
GatedChannel_Highp == "H"

GatedChannel == "L"

RenderSetDisabled ==
    /\ rPc = "set_disabled"
    /\ input_disabled' = [input_disabled EXCEPT
                            ![GatedChannel] = LowpDisabled(highp_in_use)]
    /\ gated' = [gated EXCEPT ![GatedChannel] = @ \/ LowpDisabled(highp_in_use)]
    /\ rPc' = "render"
    /\ UNCHANGED <<partVars, logVars, callerVars, inputting, queue, input_state, input_in_use,
                   data_lock, redraw, highp_in_use, keyVars, drainAt, used, unsignalled>>

\* kill_recv.try_recv() of render_loop and input_loop: Ok when a message is
\* pending, Disconnected when the kill coordinator is gone with its senders.
KillSeen_Never(pending, k) == FALSE

KillSeen(pending, k) == pending > 0 \/ k = "panicked"

\* render_loop lines 72-80: the frame is drawn (log_lines and log_header lock
\* each Log's `data`), no kill message is pending.
RenderFrame ==
    /\ rPc = "render"
    /\ \A l \in Logs : data_lock[l] = NoThread
    /\ ~KillSeen(rkill, kPc)
    /\ rPc' = "recv_timeout"
    /\ highp_in_use' = FALSE
    /\ UNCHANGED <<partVars, logVars, callerVars, inputting, queue, input_state, input_in_use,
                   input_disabled, data_lock, redraw, keyVars, histVars>>

\* render_loop lines 72-78: the frame is drawn and the kill is seen: the
\* thread returns the Manager.
RenderKill ==
    /\ rPc = "render"
    /\ \A l \in Logs : data_lock[l] = NoThread
    /\ KillSeen(rkill, kPc)
    /\ rPc' = "exited"
    /\ rkill' = 0
    /\ highp_in_use' = FALSE
    /\ UNCHANGED <<ringVars, bindVars, widths, redrawCap, viewVars, kPc, stop, ikill,
                   logVars, callerVars, inputting, queue, input_state,
                   input_in_use, input_disabled, data_lock, redraw, keyVars,
                   histVars>>

\* ------------------------------------------------------------ Renderer::render
\* get_log_bufs: vec![&self.main_log, &self.server_log].
LogBufs == <<"Main Thread", "Server Thread">>

\* get_input_handler, mod.rs lines 174-179.
InputHandler(highp_inputting) == IF highp_inputting THEN "H" ELSE "L"

\* Vec::reverse of log_lines line 32.
Reversed(v) == [j \in 1..Len(v) |-> v[Len(v) + 1 - j]]

\* log_lines lines 31-32: the Vec that the rows of the pane are made of, the
\* first entry on the first row under the header.
PaneLines_NoReverse(lines, rows) == PeekLastN(lines, rows)

PaneLines(lines, rows) == Reversed(PeekLastN(lines, rows))

\* input_box lines 143-146: the title of the box.
InputTitle(is_inputting, input_data) ==
    IF is_inputting THEN <<" Input (", input_data.input_requester, ") ">>
    ELSE <<" Input ">>

\* input_box lines 157-174: the content row of the box, dimmed filler or
\* "{prompt}{buffer}".
InputContent(is_inputting, input_data) ==
    IF is_inputting
    THEN [dim |-> FALSE, text |-> input_data.input_prompt \o input_data.input_buffer]
    ELSE [dim |-> TRUE, text |-> <<>>]

\* render line 243: where the cursor is moved to.
CursorTo_NoBorder(input_data, rows) ==
    [shown |-> TRUE,
     col |-> input_data.input_pos + Len(input_data.input_prompt),
     row |-> rows - 2]

CursorTo(input_data, rows) ==
    [shown |-> TRUE,
     col |-> input_data.input_pos + 2 + Len(input_data.input_prompt),
     row |-> rows - 2]

\* render line 240: hide_cursor.
CursorHidden == [shown |-> FALSE, col |-> 0, row |-> 0]

\* The locals of a render pass before it has begun.
NoFrame ==
    [handler |-> "L", rows |-> 0, i |-> 0, panes |-> <<>>,
     data |-> EmptyInputData, boxed |-> FALSE, inputting |-> FALSE,
     title |-> <<>>, content |-> [dim |-> TRUE, text |-> <<>>],
     cursor |-> CursorHidden, done |-> FALSE]

\* render lines 188-216: the Logs and the channel to draw are chosen, the
\* screen is cleared and the terminal is asked for its size.
RenderBegin(rows) ==
    /\ rPc = "render"
    /\ frame' = [NoFrame EXCEPT !.handler = InputHandler(IsInputting("H")),
                                !.rows = rows, !.i = 1]
    /\ rPc' = "log_header"
    /\ UNCHANGED <<ringVars, bindVars, widths, redrawCap, killVars, logLoop,
                   keyTrace, readkey, logVars, callerVars, inputting, queue,
                   input_state, input_in_use, input_disabled, data_lock,
                   redraw, highp_in_use, keyVars, histVars>>

\* log_header lines 94-111, one round of the loop: `data` of the Log is
\* locked for its title. After the last Log: log_footer, which locks nothing.
RenderHeader ==
    /\ rPc = "log_header"
    /\ LogDataFree(LogBufs[frame.i])
    /\ IF frame.i < Len(LogBufs)
       THEN /\ frame' = [frame EXCEPT !.i = @ + 1]
            /\ rPc' = rPc
       ELSE /\ frame' = [frame EXCEPT !.i = 1]
            /\ rPc' = "log_lines"
    /\ UNCHANGED <<ringVars, bindVars, widths, redrawCap, killVars, logLoop,
                   keyTrace, readkey, logVars, callerVars, inputting, queue,
                   input_state, input_in_use, input_disabled, data_lock,
                   redraw, highp_in_use, keyVars, histVars>>

\* render lines 221-223: rows - 5 with fewer than five rows. The subtraction
\* panics where overflow is checked; where it wraps, the capacity asked of
\* Vec::with_capacity in all_log_lines (line 64) is beyond isize::MAX and
\* that panics. render_loop's thread ends with the panic.
RenderRowsUnderflow ==
    /\ rPc = "log_lines"
    /\ frame.rows < 5
    /\ rPc' = "panicked"
    /\ UNCHANGED <<ringVars, bindVars, widths, redrawCap, killVars, viewVars,
                   logVars, callerVars, inputting, queue, input_state,
                   input_in_use, input_disabled, data_lock, redraw,
                   highp_in_use, keyVars, histVars>>

\* peek_last_n line 28: debug_assert!(n <= S) panics in a build with debug
\* assertions.
RenderPeekAssert ==
    /\ rPc = "log_lines"
    /\ frame.rows >= 5
    /\ LogDataFree(LogBufs[frame.i])
    /\ frame.rows - 5 > RingSize(log_data[LogBufs[frame.i]].lines)
    /\ rPc' = "panicked"
    /\ UNCHANGED <<ringVars, bindVars, widths, redrawCap, killVars, viewVars,
                   logVars, callerVars, inputting, queue, input_state,
                   input_in_use, input_disabled, data_lock, redraw,
                   highp_in_use, keyVars, histVars>>

\* all_log_lines lines 67-70, one round: log_lines locks `data` of the Log,
\* peeks rows - 5 lines and reverses them. With more rows than the buffer
\* holds this is the build without debug assertions.
RenderLogLines ==
    /\ rPc = "log_lines"
    /\ frame.rows >= 5
    /\ LogDataFree(LogBufs[frame.i])
    /\ frame' = [frame EXCEPT
                   !.panes = Append(@, PaneLines(log_data[LogBufs[frame.i]].lines,
                                                 frame.rows - 5)),
                   !.i = IF @ < Len(LogBufs) THEN @ + 1 ELSE 0]
    /\ rPc' = IF frame.i < Len(LogBufs) THEN rPc ELSE "snapshot"
    /\ UNCHANGED <<ringVars, bindVars, widths, redrawCap, killVars, logLoop,
                   keyTrace, readkey, logVars, callerVars, inputting, queue,
                   input_state, input_in_use, input_disabled, data_lock,
                   redraw, highp_in_use, keyVars, histVars>>

\* render line 228: _InputData of the chosen channel is cloned under its lock.
RenderSnapshot ==
    /\ rPc = "snapshot"
    /\ frame' = [frame EXCEPT !.data = input_state[frame.handler]]
    /\ rPc' = "input_box"
    /\ UNCHANGED <<ringVars, bindVars, widths, redrawCap, killVars, logLoop,
                   keyTrace, readkey, logVars, callerVars, inputting, queue,
                   input_state, input_in_use, input_disabled, data_lock,
                   redraw, highp_in_use, keyVars, histVars>>

\* render lines 229-237: is_inputting is read and the box is made of it and
\* of the snapshot; the frame is written to the terminal.
RenderInputBox ==
    /\ rPc = "input_box"
    /\ LET is_inputting == IsInputting(frame.handler)
       IN frame' = [frame EXCEPT !.boxed = TRUE,
                                 !.inputting = is_inputting,
                                 !.title = InputTitle(is_inputting, frame.data),
                                 !.content = InputContent(is_inputting, frame.data)]
    /\ rPc' = "cursor"
    /\ UNCHANGED <<ringVars, bindVars, widths, redrawCap, killVars, logLoop,
                   keyTrace, readkey, logVars, callerVars, inputting, queue,
                   input_state, input_in_use, input_disabled, data_lock,
                   redraw, highp_in_use, keyVars, histVars>>

\* The flag that decides on the cursor: render line 239 reads is_inputting
\* again.
CursorFlag(f, in_use) == in_use[f.handler]

\* render lines 239-247 and render_loop lines 74-80: the cursor is hidden or
\* shown and placed, render returns, and the kill channel is polled.
RenderCursor ==
    /\ rPc = "cursor"
    /\ frame' = [frame EXCEPT
                   !.cursor = IF CursorFlag(frame, input_in_use)
                              THEN CursorTo(frame.data, frame.rows)
                              ELSE CursorHidden,
                   !.done = TRUE]
    /\ IF KillSeen(rkill, kPc)
       THEN rPc' = "exited" /\ rkill' = 0
       ELSE rPc' = "recv_timeout" /\ rkill' = rkill
    /\ highp_in_use' = FALSE
    /\ UNCHANGED <<ringVars, bindVars, widths, redrawCap, kPc, stop, ikill,
                   logLoop, keyTrace, readkey, logVars, callerVars, inputting, queue,
                   input_state, input_in_use, input_disabled, data_lock,
                   redraw, keyVars, histVars>>

\* ------------------------------------------------------------ key-reading thread
\* input_loop lines 97-130: the worker's read_key returned Ok(k).
ReadKey(k) ==
    /\ ilPc = "read_key"
    /\ ~KillSeen(ikill, kPc)
    /\ nkeys' = nkeys + 1
    /\ key' = k
    /\ ilPc' = "fanH"
    /\ keyTrace' = IF keyTrace.on THEN [keyTrace EXCEPT !.read = Append(@, k)]
                                  ELSE keyTrace
    /\ UNCHANGED <<ringVars, bindVars, widths, redrawCap, killVars, frame, logLoop, readkey, logVars, callerVars, inputting, queue, input_state, input_in_use,
                   input_disabled, data_lock, redraw, renderVars, histVars>>

\* input_loop lines 127-130: read_key returned Err, the thread panics.
ReadKeyFails ==
    /\ ilPc = "read_key"
    /\ ~KillSeen(ikill, kPc)
    /\ ilPc' = "panicked"
    /\ UNCHANGED <<partVars, logVars, callerVars, inputting, queue, input_state, input_in_use,
                   input_disabled, data_lock, redraw, renderVars, key, nkeys,
                   histVars>>

\* Sender::send on the channel of an InputChannel: the message joins the end
\* of what the endpoint has not yet received.
Send_Twice(q, msg) == Append(Append(q, msg), msg)

Send(q, msg) == Append(q, msg)

\* input_loop lines 132-134, senders = [highp, lowp]: one send.
FanOut(c) ==
    /\ ilPc = (IF c = "H" THEN "fanH" ELSE "fanL")
    /\ queue' = [queue EXCEPT
                   ![c] = Send(@, [id |-> nkeys, key |-> key,
                                   dis |-> IsDisabled(c)])]
    /\ ilPc' = (IF c = "H" THEN "fanL" ELSE "read_key")
    /\ key' = (IF c = "H" THEN key ELSE "none")
    /\ keyTrace' = IF keyTrace.on THEN [keyTrace EXCEPT !.sent[c] = Append(@, key)]
                                  ELSE keyTrace
    /\ UNCHANGED <<ringVars, bindVars, widths, redrawCap, killVars, frame, logLoop, readkey, logVars, callerVars, inputting, input_state, input_in_use,
                   input_disabled, data_lock, redraw, renderVars, nkeys,
                   histVars>>

\* input_loop line 120: `if disconnect { return }` comes before the join of
\* the worker and before the fan-out.
OnDisconnect_FansOut == "fanH"

OnDisconnect == "exited"

\* input_loop lines 105-120: in the wait for the worker, whether or not the
\* read has returned, try_recv sees the kill: the thread returns and leaves
\* the worker behind.
InputKill ==
    /\ ilPc = "read_key"
    /\ KillSeen(ikill, kPc)
    /\ ilPc' = OnDisconnect
    /\ ikill' = 0
    /\ UNCHANGED <<ringVars, bindVars, widths, redrawCap, viewVars, kPc, stop, rkill,
                   logVars, callerVars, inputting, queue, input_state,
                   input_in_use, input_disabled, data_lock, redraw, renderVars,
                   key, nkeys, histVars>>

\* input_loop lines 90-102, the top of the loop: key_read is cleared and the
\* worker thread "input readkey" is spawned; it calls read_key.
SpawnWorker ==
    /\ ilPc = "read_key"
    /\ readkey' = [readkey EXCEPT !.reading = @ + 1]
    /\ ilPc' = "wait"
    /\ UNCHANGED <<ringVars, bindVars, widths, redrawCap, killVars, frame, logLoop,
                   keyTrace, logVars, callerVars, inputting, queue, input_state,
                   input_in_use, input_disabled, data_lock, redraw, renderVars,
                   key, nkeys, histVars>>

\* input_loop lines 98-101, in a worker: read_key returns Ok(k), key_read is
\* set and the condvar notified; the worker returns the key to its JoinHandle.
WorkerReads(k) ==
    /\ readkey.reading > 0
    /\ readkey' = [readkey EXCEPT !.reading = @ - 1, !.returned = Append(@, k)]
    /\ nkeys' = nkeys + 1
    /\ keyTrace' = IF keyTrace.on THEN [keyTrace EXCEPT !.read = Append(@, k)]
                                  ELSE keyTrace
    /\ UNCHANGED <<ringVars, bindVars, widths, redrawCap, killVars, frame, logLoop,
                   logVars, callerVars, inputting, queue, input_state,
                   input_in_use, input_disabled, data_lock, redraw, renderVars,
                   ilPc, key, histVars>>

\* input_loop lines 105-120: try_recv in the wait sees the kill, whether or
\* not a worker has returned: the thread returns and leaves its worker behind.
WaitKill ==
    /\ ilPc = "wait"
    /\ KillSeen(ikill, kPc)
    /\ ilPc' = OnDisconnect
    /\ ikill' = 0
    /\ UNCHANGED <<ringVars, bindVars, widths, redrawCap, viewVars, kPc, stop, rkill,
                   logVars, callerVars, inputting, queue, input_state,
                   input_in_use, input_disabled, data_lock, redraw, renderVars,
                   key, nkeys, histVars>>

\* readkey_thread.join(), line 122: the handle is consumed, the worker is
\* finished.
Joined_KeepsWorker(rk) == rk

Joined(rk) == [rk EXCEPT !.returned = Tail(@)]

\* input_loop lines 105-130: the wait ends with key_read set and no kill
\* seen by the last try_recv; the worker is joined and gives its Ok(k).
JoinWorker ==
    /\ ilPc = "wait"
    /\ readkey.returned # <<>>
    /\ key' = Head(readkey.returned)
    /\ readkey' = Joined(readkey)
    /\ ilPc' = "fanH"
    /\ UNCHANGED <<ringVars, bindVars, widths, redrawCap, killVars, frame, logLoop,
                   keyTrace, logVars, callerVars, inputting, queue, input_state,
                   input_in_use, input_disabled, data_lock, redraw, renderVars,
                   nkeys, histVars>>

\* ------------------------------------------------------------ kill coordinator
\* The stop channel of spawn_threads with nothing sent and its Sender held.
NoStop == "none"

\* The holder of the Sender that spawn_threads returned sends on it.
StopRequest ==
    /\ stop = NoStop
    /\ stop' = "message"
    /\ UNCHANGED <<ringVars, bindVars, widths, redrawCap, viewVars, kPc, ikill, rkill,
                   dashVars>>

\* The holder drops the Sender without a send: the channel is disconnected.
HandleDropped ==
    /\ stop = NoStop
    /\ stop' = "disconnected"
    /\ UNCHANGED <<ringVars, bindVars, widths, redrawCap, viewVars, kPc, ikill, rkill,
                   dashVars>>

\* spawn_threads line 158: `let _result = kkill_recv.recv()` returns Ok on a
\* message and Err on a disconnect, and the result is not looked at.
RecvReturns_OnMessage(s) == s = "message"

RecvReturns(s) == s \in {"message", "disconnected"}

\* spawn_threads line 158: kkill_recv.recv() returns.
KillRecv ==
    /\ kPc = "recv"
    /\ RecvReturns(stop)
    /\ kPc' = "send_ikill"
    /\ UNCHANGED <<ringVars, bindVars, widths, redrawCap, viewVars, stop, ikill, rkill,
                   dashVars>>

\* A thread that has ended, by return or by panic, has dropped its Receiver.
Ended(p) == p \in {"exited", "panicked"}

\* spawn_threads line 158: ikill_send.send(()).expect(..): the send fails, and
\* expect panics, when the key-reading thread has dropped its Receiver.
KillSendInput ==
    /\ kPc = "send_ikill"
    /\ IF Ended(ilPc)
       THEN kPc' = "panicked" /\ ikill' = ikill
       ELSE kPc' = "send_rkill" /\ ikill' = ikill + 1
    /\ UNCHANGED <<ringVars, bindVars, widths, redrawCap, viewVars, stop, rkill, dashVars>>

\* spawn_threads line 159: rkill_send.send(()).expect(..).
KillSendRender ==
    /\ kPc = "send_rkill"
    /\ IF Ended(rPc)
       THEN kPc' = "panicked" /\ rkill' = rkill
       ELSE kPc' = "join_input" /\ rkill' = rkill + 1
    /\ UNCHANGED <<ringVars, bindVars, widths, redrawCap, viewVars, stop, ikill, dashVars>>

\* spawn_threads line 160: input_join.join().expect(..): join returns when the
\* thread has ended, with Err when it panicked.
KillJoinInput ==
    /\ kPc = "join_input"
    /\ Ended(ilPc)
    /\ kPc' = (IF ilPc = "panicked" THEN "panicked" ELSE "join_render")
    /\ UNCHANGED <<ringVars, bindVars, widths, redrawCap, viewVars, stop, ikill, rkill,
                   dashVars>>

\* spawn_threads line 161: render_join.join().unwrap() is the Manager the
\* coordinator returns.
KillJoinRender ==
    /\ kPc = "join_render"
    /\ Ended(rPc)
    /\ kPc' = (IF rPc = "panicked" THEN "panicked" ELSE "done")
    /\ UNCHANGED <<ringVars, bindVars, widths, redrawCap, viewVars, stop, ikill, rkill,
                   dashVars>>

\* ------------------------------------------------------------ specification
\* The parts specified on their own, as they are while the dashboard runs.
RingIdle ==
    /\ ring = RingNew(1, RingDefault)
    /\ pushed = <<>>
    /\ peeked = NoPeek

\* THREAD_LOGGER starts as None on every thread.
BindInit ==
    /\ thread_logger = [t \in Threads |-> "none"]
    /\ got = [t \in Threads |-> "none"]
    /\ sets = [t \in Threads |-> <<>>]

\* spawn_threads: the three threads run, no stop is requested.
KillInit ==
    /\ kPc = "recv"
    /\ stop = NoStop
    /\ ikill = 0
    /\ rkill = 0

\* No render pass has begun, no append is in its loop, and the keys are not
\* recorded.
NoTrace == [on |-> FALSE, read |-> <<>>, sent |-> [c \in Channels |-> <<>>]]

\* No worker of input_loop is spawned.
NoWorkers == [reading |-> 0, returned |-> <<>>]

ViewInit ==
    /\ frame = NoFrame
    /\ logLoop = [t \in Threads |-> NoLoop]
    /\ readkey = NoWorkers

InitParts ==
    RingIdle /\ BindInit /\ widths = NoWidths /\ KillInit /\ ViewInit /\ keyTrace = NoTrace

\* Log::new for both Logs, and with_disk_log for those given a path.
InitLogs(paths) ==
    /\ log_data = [l \in Logs |->
                     [lines |-> RingNew(RingCapacity, <<>>), disk_log_path |-> paths[l]]]
    /\ mirror = [l \in Logs |-> <<>>]
    /\ logArgs = [t \in Threads |-> NoArgs]
    /\ nappends = 0
    /\ owed = [l \in Logs |-> 0]
    /\ swallowed = [l \in Logs |-> 0]

\* Manager::new: the channels, the threads not yet started.
InitInput ==
    /\ pc = [t \in Threads |-> "idle"]
    /\ chan = [t \in Threads |-> "L"]
    /\ mode = [t \in Threads |-> "string"]
    /\ cur = [t \in Threads |-> NoKey]
    /\ password = [t \in Threads |-> <<>>]
    /\ result = [t \in Threads |-> NoResult]
    /\ inputting = [c \in Channels |-> NoThread]
    /\ queue = [c \in Channels |-> <<>>]
    /\ input_state = [c \in Channels |-> EmptyInputData]
    /\ input_in_use = [c \in Channels |-> FALSE]
    /\ input_disabled = [c \in Channels |-> FALSE]
    /\ data_lock = [l \in Logs |-> NoThread]
    /\ redraw = 0
    /\ rPc = "recv_timeout"
    /\ highp_in_use = FALSE
    /\ ilPc = "read_key"
    /\ key = "none"
    /\ nkeys = 0
    /\ drainAt = [c \in Channels |-> 0]
    /\ used = [c \in Channels |-> <<>>]
    /\ gated = [c \in Channels |-> FALSE]
    /\ unsignalled = [c \in Channels |-> FALSE]

\* Manager::new makes both Logs with Log::new: neither has a disk mirror.
InitDash == InitInput /\ InitLogs([l \in Logs |-> "none"])

Init == InitDash /\ InitParts /\ redrawCap = MaxRedraw


Next ==
    \/ \E t \in Threads, m \in DashModes : \E l \in ThreadLogs(t) : Call(t, l, m)
    \/ \E t \in Threads : Begin(t)
    \/ \E t \in Threads : SetInputting(t)
    \/ \E t \in Threads : WaitForEnabled(t)
    \/ \E t \in Threads : ReadChar(t)
    \/ \E t \in Threads : MatchKey(t)
    \/ \E t \in Threads : ClearInputting(t)
    \/ \E t \in Threads : Return(t)
    \/ RenderWake
    \/ RenderSetDisabled
    \/ RenderFrame
    \/ nkeys < MaxKeys /\ \E k \in DashKeys : ReadKey(k)
    \/ \E c \in Channels : FanOut(c)

Spec == Init /\ [][Next]_vars

\* One caller on the high-priority channel and the whole keyboard.
NextInput ==
    \/ \E m \in InputModes : Call("other", "Server Thread", m)
    \/ Begin("other")
    \/ SetInputting("other")
    \/ WaitForEnabled("other")
    \/ ReadChar("other")
    \/ MatchKey("other")
    \/ ClearInputting("other")
    \/ Return("other")
    \/ RenderWake
    \/ RenderSetDisabled
    \/ RenderFrame
    \/ nkeys < MaxTyped /\ \E k \in Keys : ReadKey(k)
    \/ \E c \in Channels : FanOut(c)

InputSpec == Init /\ [][NextInput]_vars

\* The messages and levels of the appends of the logging specification.
LogMsgs == {<<"h", "i">>, <<"h", "\t", "\n", "w">>}
LogLevels == {"info", "warn"}

\* Appends on both Logs beside requests that no key ever answers.
NextLog ==
    \/ /\ nappends < MaxAppends
       /\ \E t \in Threads, l \in Logs, msg \in LogMsgs, level \in LogLevels :
              LogCall(t, l, msg, level)
    \/ \E t \in Threads, out \in {"nopath", "noopen", "err", "part", "all"} :
           FileLog(t, out)
    \/ \E t \in Threads : LogLock(t)
    \/ \E t \in Threads : LogPush(t)
    \/ \E t \in Threads, m \in Modes : \E l \in ThreadLogs(t) : Call(t, l, m)
    \/ \E t \in Threads : Begin(t)
    \/ \E t \in Threads : SetInputting(t)
    \/ \E t \in Threads : WaitForEnabled(t)
    \/ RenderWake
    \/ RenderSetDisabled
    \/ RenderFrame

LogSpec == Init /\ [][NextLog]_vars

\* Logs built with or without with_disk_log, appended to by both threads.
DiskPaths == {"none", "logs"}

InitMirror ==
    /\ InitInput
    /\ \E paths \in [Logs -> DiskPaths] : InitLogs(paths)
    /\ InitParts
    /\ redrawCap = MaxRedraw

NextMirror ==
    \/ /\ nappends < MaxAppends
       /\ \E t \in Threads, l \in Logs, msg \in LogMsgs, level \in LogLevels :
              LogCall(t, l, msg, level)
    \/ \E t \in Threads, out \in {"nopath", "noopen", "err", "part", "all"} :
           FileLog(t, out)
    \/ \E t \in Threads : LogLock(t)
    \/ \E t \in Threads : LogPush(t)

MirrorSpec == InitMirror /\ [][NextMirror]_vars

\* Log::set and Log::get called by both threads with the Manager's Logs.
NextBind ==
    \/ /\ Len(sets["main"]) + Len(sets["other"]) < MaxSets
       /\ \E t \in Threads, to \in Logs :
              LogSet(t, to, [l \in Logs |-> "nopath"])
    \/ \E t \in Threads : LogGet(t)

BindSpec == Init /\ [][NextBind]_vars

\* log_widths called with every number of Logs and every terminal width.
NextWidths == \E n \in 1..MaxLogs, columns \in 0..MaxColumns : LogWidthsCall(n, columns)

WidthsSpec == Init /\ [][NextWidths]_vars

\* Requests that no key answers, and the render thread: the redraw channel
\* may hold up to MaxPending messages.
InitRedraw == InitDash /\ InitParts /\ redrawCap = MaxPending

NextRedraw ==
    \/ \E t \in Threads, m \in Modes : \E l \in ThreadLogs(t) : Call(t, l, m)
    \/ \E t \in Threads : Begin(t)
    \/ \E t \in Threads : SetInputting(t)
    \/ \E t \in Threads : WaitForEnabled(t)
    \/ RenderWake
    \/ RenderSetDisabled
    \/ RenderFrame

RedrawSpec == InitRedraw /\ [][NextRedraw]_vars

\* The dashboard with one caller, a terminal whose key read may fail or never
\* return, and a stop request.
NextShutdown ==
    \/ \E m \in DashModes : Call("other", "Server Thread", m)
    \/ Begin("other")
    \/ SetInputting("other")
    \/ WaitForEnabled("other")
    \/ ReadChar("other")
    \/ MatchKey("other")
    \/ ClearInputting("other")
    \/ Return("other")
    \/ RenderWake
    \/ RenderSetDisabled
    \/ RenderFrame
    \/ RenderKill
    \/ nkeys < MaxKeys /\ \E k \in DashKeys : ReadKey(k)
    \/ ReadKeyFails
    \/ \E c \in Channels : FanOut(c)
    \/ InputKill
    \/ StopRequest
    \/ KillRecv
    \/ KillSendInput
    \/ KillSendRender
    \/ KillJoinInput
    \/ KillJoinRender

ShutdownSpec == Init /\ [][NextShutdown]_vars

\* A RingBuffer of any capacity up to MaxCap, pushed into and peeked.
InitRing ==
    /\ InitDash
    /\ BindInit
    /\ widths = NoWidths
    /\ KillInit
    /\ ViewInit
    /\ keyTrace = NoTrace
    /\ redrawCap = MaxRedraw
    /\ \E S \in 1..MaxCap : ring = RingNew(S, RingDefault)
    /\ pushed = <<>>
    /\ peeked = NoPeek

NextRing ==
    \/ /\ Len(pushed) < MaxPushes
       /\ \E element \in RingValues : RingPushOp(element)
    \/ \E n \in 0..MaxCap : RingPeek(n)

RingSpec == InitRing /\ [][NextRing]_vars

\* The keyboard, recorded key by key, and one caller that asks on either
\* channel.
MaxFanned == 3

InitKeys ==
    /\ InitDash
    /\ RingIdle /\ BindInit /\ widths = NoWidths /\ KillInit /\ ViewInit
    /\ keyTrace = [NoTrace EXCEPT !.on = TRUE]
    /\ redrawCap = MaxRedraw

NextKeys ==
    \/ \E l \in Logs : Call("other", l, "string")
    \/ Begin("other")
    \/ SetInputting("other")
    \/ WaitForEnabled("other")
    \/ ReadChar("other")
    \/ MatchKey("other")
    \/ ClearInputting("other")
    \/ Return("other")
    \/ RenderWake
    \/ RenderSetDisabled
    \/ RenderFrame
    \/ nkeys < MaxFanned /\ \E k \in DashKeys : ReadKey(k)
    \/ ReadKeyFails
    \/ \E c \in Channels : FanOut(c)

KeySpec == InitKeys /\ [][NextKeys]_vars

\* The render pass step by step beside one caller that asks on either
\* channel.
DashRows == {6, 7}

NextBox ==
    \/ \E l \in Logs, m \in DashModes : Call("other", l, m)
    \/ Begin("other")
    \/ SetInputting("other")
    \/ WaitForEnabled("other")
    \/ ReadChar("other")
    \/ MatchKey("other")
    \/ ClearInputting("other")
    \/ Return("other")
    \/ RenderWake
    \/ RenderSetDisabled
    \/ \E rows \in DashRows : RenderBegin(rows)
    \/ RenderHeader
    \/ RenderLogLines
    \/ RenderSnapshot
    \/ RenderInputBox
    \/ RenderCursor
    \/ nkeys < MaxKeys /\ \E k \in DashKeys : ReadKey(k)
    \/ \E c \in Channels : FanOut(c)

BoxSpec == Init /\ [][NextBox]_vars

\* The steps of the render thread.
RenderPass ==
    \/ RenderWake
    \/ RenderSetDisabled
    \/ \E rows \in DashRows : RenderBegin(rows)
    \/ RenderHeader
    \/ RenderLogLines
    \/ RenderSnapshot
    \/ RenderInputBox
    \/ RenderCursor

\* One caller that asks for strings on server_log, and a render thread
\* that is never kept from its next step: recv_timeout returns at the
\* latest after the interval, and a pass waits only for locks.
NextSignal ==
    \/ Call("other", "Server Thread", "string")
    \/ Begin("other")
    \/ SetInputting("other")
    \/ WaitForEnabled("other")
    \/ ReadChar("other")
    \/ MatchKey("other")
    \/ ClearInputting("other")
    \/ Return("other")
    \/ nkeys < MaxKeys /\ \E k \in DashKeys : ReadKey(k)
    \/ \E c \in Channels : FanOut(c)
    \/ RenderPass

SignalSpec == Init /\ [][NextSignal]_vars /\ WF_vars(RenderPass)

\* Requests on both channels that no key ever answers, and the render
\* thread, never kept from its next step.
NextBlocked ==
    \/ \E t \in Threads, m \in Modes : \E l \in ThreadLogs(t) : Call(t, l, m)
    \/ \E t \in Threads : Begin(t)
    \/ \E t \in Threads : SetInputting(t)
    \/ \E t \in Threads : WaitForEnabled(t)
    \/ RenderPass

BlockedSpec == Init /\ [][NextBlocked]_vars /\ WF_vars(RenderPass)

\* The render pass step by step beside a request on each channel: the main
\* thread asks on main_log, another thread on server_log.

NextFrame ==
    \/ \E m \in DashModes : Call("main", "Main Thread", m)
    \/ \E m \in DashModes : Call("other", "Server Thread", m)
    \/ \E t \in Threads : Begin(t)
    \/ \E t \in Threads : SetInputting(t)
    \/ \E t \in Threads : WaitForEnabled(t)
    \/ \E t \in Threads : ReadChar(t)
    \/ \E t \in Threads : MatchKey(t)
    \/ \E t \in Threads : ClearInputting(t)
    \/ \E t \in Threads : Return(t)
    \/ RenderWake
    \/ RenderSetDisabled
    \/ \E rows \in DashRows : RenderBegin(rows)
    \/ RenderHeader
    \/ RenderLogLines
    \/ RenderSnapshot
    \/ RenderInputBox
    \/ RenderCursor
    \/ nkeys < MaxKeys /\ \E k \in DashKeys : ReadKey(k)
    \/ \E c \in Channels : FanOut(c)

FrameSpec == Init /\ [][NextFrame]_vars

\* Appends by both threads, pushed line by line, beside the render pass.
NextPane ==
    \/ /\ nappends < MaxAppends
       /\ \E t \in Threads, l \in Logs, msg \in LogMsgs, level \in LogLevels :
              LogCall(t, l, msg, level)
    \/ \E t \in Threads : FileLog(t, "nopath")
    \/ \E t \in Threads : LogLockLines(t)
    \/ \E t \in Threads : LogPushLine(t)
    \/ \E t \in Threads : LogUnlock(t)
    \/ RenderWake
    \/ RenderSetDisabled
    \/ \E rows \in DashRows : RenderBegin(rows)
    \/ RenderHeader
    \/ RenderLogLines
    \/ RenderSnapshot
    \/ RenderInputBox
    \/ RenderCursor

PaneSpec == Init /\ [][NextPane]_vars

\* The render pass on terminals of every height up to MaxRows, in builds
\* with and without debug assertions.
MaxRows == 263

NextSize ==
    \/ RenderWake
    \/ RenderSetDisabled
    \/ \E rows \in 0..MaxRows : RenderBegin(rows)
    \/ RenderHeader
    \/ RenderRowsUnderflow
    \/ RenderPeekAssert
    \/ RenderLogLines
    \/ RenderSnapshot
    \/ RenderInputBox
    \/ RenderCursor

SizeSpec == Init /\ [][NextSize]_vars

\* One caller that asks on either channel, the keyboard, and a stop request
\* on a terminal whose key reads do not fail.
NextStop ==
    \/ \E l \in Logs, m \in DashModes : Call("other", l, m)
    \/ Begin("other")
    \/ SetInputting("other")
    \/ WaitForEnabled("other")
    \/ ReadChar("other")
    \/ MatchKey("other")
    \/ ClearInputting("other")
    \/ Return("other")
    \/ RenderWake
    \/ RenderSetDisabled
    \/ RenderFrame
    \/ RenderKill
    \/ nkeys < MaxKeys /\ \E k \in DashKeys : ReadKey(k)
    \/ \E c \in Channels : FanOut(c)
    \/ InputKill
    \/ StopRequest
    \/ KillRecv
    \/ KillSendInput
    \/ KillSendRender
    \/ KillJoinInput
    \/ KillJoinRender

StopSpec == InitRedraw /\ [][NextStop]_vars

\* The steps of a caller inside request_input.
CallerSteps(t) ==
    \/ Begin(t)
    \/ SetInputting(t)
    \/ WaitForEnabled(t)
    \/ ReadChar(t)
    \/ MatchKey(t)
    \/ ClearInputting(t)
    \/ Return(t)

\* The steps of render_loop with the pass in one step.
RenderLoop == RenderWake \/ RenderSetDisabled \/ RenderFrame

\* The main thread asks on main_log and another thread on server_log; the
\* render thread and the thread inside the high-priority request are never
\* kept from their next step. The terminal delivers MaxGateKeys keys.
MaxGateKeys == 1

NextGate ==
    \/ Call("main", "Main Thread", "string")
    \/ \E m \in DashModes : Call("other", "Server Thread", m)
    \/ \E t \in Threads : CallerSteps(t)
    \/ RenderLoop
    \/ nkeys < MaxGateKeys /\ \E k \in DashKeys : ReadKey(k)
    \/ \E c \in Channels : FanOut(c)

GateSpec ==
    Init /\ [][NextGate]_vars /\ WF_vars(RenderLoop) /\ WF_vars(CallerSteps("other"))

\* The key-reading thread with its workers, step by step, the keys recorded,
\* and the stop signal.
NextWorker ==
    \/ SpawnWorker
    \/ nkeys < MaxFanned /\ \E k \in DashKeys : WorkerReads(k)
    \/ JoinWorker
    \/ \E c \in Channels : FanOut(c)
    \/ WaitKill
    \/ StopRequest
    \/ KillRecv
    \/ KillSendInput

WorkerSpec == InitKeys /\ [][NextWorker]_vars

\* One caller that asks on either channel beside a render thread whose
\* terminal may have fewer than five rows.
SmallRows == {4, 6}

NextUnwind ==
    \/ \E l \in Logs, m \in DashModes : Call("other", l, m)
    \/ CallerSteps("other")
    \/ RequestPanics("other")
    \/ RenderWake
    \/ RenderSetDisabled
    \/ \E rows \in SmallRows : RenderBegin(rows)
    \/ RenderHeader
    \/ RenderRowsUnderflow
    \/ RenderLogLines
    \/ RenderSnapshot
    \/ RenderInputBox
    \/ RenderCursor
    \/ nkeys < MaxKeys /\ \E k \in DashKeys : ReadKey(k)
    \/ \E c \in Channels : FanOut(c)

UnwindSpec == Init /\ [][NextUnwind]_vars

\* The steps of the key-reading thread once a key is read, of the render
\* thread with its kill, and of the kill coordinator.
KeyLoop == (\E c \in Channels : FanOut(c)) \/ InputKill

RenderLoopKill == RenderLoop \/ RenderKill

KillCoordinator ==
    KillRecv \/ KillSendInput \/ KillSendRender \/ KillJoinInput \/ KillJoinRender

\* The three threads of spawn_threads, none kept from its next step, a
\* keyboard, and a holder of the stop handle who sends on it or drops it.
NextDrop ==
    \/ RenderLoopKill
    \/ nkeys < MaxKeys /\ \E k \in DashKeys : ReadKey(k)
    \/ KeyLoop
    \/ StopRequest
    \/ HandleDropped
    \/ KillCoordinator

DropSpec ==
    /\ Init
    /\ [][NextDrop]_vars
    /\ WF_vars(RenderLoopKill)
    /\ WF_vars(KeyLoop)
    /\ WF_vars(KillCoordinator)

\* The dashboard with a terminal whose key read may fail.
NextIo == Next \/ ReadKeyFails

SpecIo == Init /\ [][NextIo]_vars

\* ------------------------------------------------------------ properties
\* The positions of a caller that holds the receiver mutex of its channel.
InRequest(t) ==
    pc[t] \in {"set_inputting", "wait_for_enabled", "read_char", "match_key",
               "clear_inputting", "redraw_end"}

\* C1: on one channel at most one request is active: a caller that is past
\* line 79 is the holder of the receiver mutex of its channel, no other caller
\* is past line 79 on the same channel, and the requesting flag and the keys
\* of the channel belong to that one caller.
C1_OneActiveRequest ==
    \A t \in Threads :
        InRequest(t) =>
            /\ inputting[chan[t]] = t
            /\ \A u \in Threads \ {t} :
                   chan[u] = chan[t] => pc[u] \in {"idle", "lock"}

\* A second caller waits at line 79 while the first is inside its request.
C1_Witness ==
    \E t \in Threads, u \in Threads :
        /\ t # u
        /\ pc[t] = "read_char"
        /\ pc[u] = "lock"
        /\ chan[u] = chan[t]

\* C2: drain before start: every key a request consumes, and every key
\* waiting in the endpoint of a channel with a request, was sent to the
\* channel after the drain of that request.
C2_DrainBeforeStart ==
    /\ \A t \in Threads :
           pc[t] = "match_key" => cur[t].id > drainAt[chan[t]]
    /\ \A t \in Threads :
           InRequest(t) =>
               \A i \in 1..Len(queue[chan[t]]) :
                   queue[chan[t]][i].id > drainAt[chan[t]]

\* A request on the high-priority channel consumes the second key after its
\* drain discarded the first: the first key, a character (still unread in the
\* low-priority endpoint, which no request has drained yet), was sent to the
\* channel before the drain and cannot have ended an earlier request.
C2_Witness ==
    /\ pc["other"] = "match_key"
    /\ chan["other"] = "H"
    /\ drainAt["H"] = 1
    /\ cur["other"].id = 2
    /\ input_state["L"].input_requester = ""
    /\ queue["L"] # <<>>
    /\ queue["L"][1] = [id |-> 1, key |-> "a", dis |-> FALSE]

\* The key a caller is about to match changes the buffer or ends the request.
Effective(t) ==
    \/ cur[t].key = "Enter"
    \/ /\ mode[t] \in {"string", "password"}
       /\ \/ cur[t].key \in KeyChars
          \/ /\ cur[t].key = "Backspace"
             /\ Len(input_state[chan[t]].input_buffer) > 0

\* C6: a key sent to a channel while its disabled flag was true is never
\* applied to the buffer of the channel and never ends its request.
C6_DisabledKeysDiscarded ==
    \A t \in Threads :
        (pc[t] = "match_key" /\ cur[t].dis) => ~Effective(t)

\* C7: a request loop that inspects a received key while its channel is
\* disabled goes round without the key: buffer, cursor and result stay as they
\* are and the key is not matched.
C7_DisabledNeverConsumes ==
    [][\A t \in Threads :
           (pc[t] = "read_char" /\ pc'[t] # "read_char" /\ IsDisabled(chan[t])) =>
               /\ pc'[t] = "wait_for_enabled"
               /\ cur'[t] = NoKey
               /\ input_state' = input_state
               /\ result' = result
               /\ used' = used]_vars

\* A caller is about to inspect a queued key while its channel is disabled.
C7_Witness ==
    \E t \in Threads :
        /\ pc[t] = "read_char"
        /\ IsDisabled(chan[t])
        /\ queue[chan[t]] # <<>>
        /\ queue[chan[t]][1].key = "Enter"

\* While the low-priority channel is disabled with no high-priority request,
\* the pass that enables it again is running or its trigger is pending: the
\* redraw signal of the completed request is in the channel or about to be sent.
GateRecovers ==
    (input_disabled["L"] /\ ~input_in_use["H"]) =>
        \/ redraw > 0
        \/ rPc = "set_disabled" /\ ~highp_in_use
        \/ \E t \in Threads : pc[t] = "redraw_end" /\ chan[t] = "H"

\* C8: a render pass reads the requesting flag of the high-priority channel
\* and stores what it read in the disabled flag of the low-priority channel,
\* so the channel is disabled after a pass that saw a request and enabled
\* after a pass that saw none; and after a high-priority request has completed
\* the pass that enables the channel is triggered by its redraw signal.
C8_PriorityGate ==
    [][/\ (rPc = "recv_timeout" /\ rPc' = "set_disabled") =>
              highp_in_use' = input_in_use["H"]
       /\ (rPc = "set_disabled" /\ rPc' = "render") =>
              input_disabled'["L"] = highp_in_use
       /\ GateRecovers']_vars

\* After a completed high-priority request the low-priority channel is still
\* disabled and the pass that enables it has read the flag.
C8_Witness ==
    /\ input_disabled["L"]
    /\ ~input_in_use["H"]
    /\ rPc = "set_disabled"
    /\ ~highp_in_use

\* C10: a failed terminal key read reaches the caller blocked in a request as
\* an I/O error and crashes nothing: no caller waits for a key on an empty
\* endpoint of a key-reading thread that has panicked.
C10_ReadFailureReturned ==
    \A t \in Threads :
        (pc[t] = "read_char" /\ queue[chan[t]] = <<>>) => ilPc # "panicked"

\* The keys of a sequence of received keys.
KeysOf(u) == [i \in 1..Len(u) |-> u[i].key]

\* The text a sequence of keys types: a character key appends, Backspace
\* removes the last character if there is one, every other key is ignored.
RECURSIVE FoldKeys(_)
FoldKeys(ks) ==
    IF ks = <<>> THEN <<>>
    ELSE LET b == FoldKeys(SubSeq(ks, 1, Len(ks) - 1))
             k == ks[Len(ks)]
         IN CASE k \in KeyChars -> Append(b, k)
              [] k = "Backspace" /\ Len(b) > 0 -> SubSeq(b, 1, Len(b) - 1)
              [] OTHER -> b

\* The keys a request consumed are the keys sent to its channel since its
\* drain, in order; only the last one may be Enter.
UsedIsSentSinceDrain(c) ==
    /\ \A i \in 1..Len(used[c]) : used[c][i].id = drainAt[c] + i
    /\ \A i \in 1..(Len(used[c]) - 1) : used[c][i].key # "Enter"

\* C3: the string request_string returns is the fold of the keys sent to the
\* enabled channel after the request began, up to the first Enter, over an
\* empty buffer, for a first request and for every later one.
C3_StringIsFoldOfKeys ==
    \A t \in Threads :
        (/\ pc[t] \in {"clear_inputting", "redraw_end"}
         /\ mode[t] = "string"
         /\ ~gated[chan[t]]) =>
            /\ UsedIsSentSinceDrain(chan[t])
            /\ used[chan[t]][Len(used[chan[t]])].key = "Enter"
            /\ result[t] = FoldKeys(KeysOf(used[chan[t]]))

\* A request got a character, a Backspace and Enter, and returns the empty
\* string.
C3_Witness ==
    \E t \in Threads :
        /\ pc[t] = "redraw_end"
        /\ mode[t] = "string"
        /\ KeysOf(used[chan[t]]) = <<"a", "Backspace", "Enter">>
        /\ result[t] = <<>>

\* C4: request_password returns what request_string returns for the same
\* keys: the typed characters that survive the Backspaces.
C4_PasswordIsTypedText ==
    \A t \in Threads :
        (/\ pc[t] \in {"clear_inputting", "redraw_end"}
         /\ mode[t] = "password"
         /\ ~gated[chan[t]]) =>
            result[t] = FoldKeys(KeysOf(used[chan[t]]))

Mask(n) == [i \in 1..n |-> "*"]

\* C5: during request_password the visible buffer is one mask character for
\* each character of the retained secret, and the secret is the fold of the
\* keys consumed so far.
C5_MaskedBufferShadowsSecret ==
    \A t \in Threads :
        (InRequest(t) /\ mode[t] = "password") =>
            /\ input_state[chan[t]].input_buffer = Mask(Len(password[t]))
            /\ password[t] = FoldKeys(KeysOf(used[chan[t]]))

\* After two characters and a Backspace the buffer is "*" and the secret the
\* first character.
C5_Witness ==
    \E t \in Threads :
        /\ pc[t] = "wait_for_enabled"
        /\ mode[t] = "password"
        /\ KeysOf(used[chan[t]]) = <<"a", "a", "Backspace">>
        /\ password[t] = <<"a">>
        /\ input_state[chan[t]].input_buffer = <<"*">>

\* C9: no Log lock is held across a blocking request, so an append never
\* waits for a key: whoever holds the `data` lock of a Log is pushing the
\* lines of an append and drops the lock with its next step.
C9_AppendNeverWaitsForInput ==
    \A l \in Logs :
        data_lock[l] # NoThread =>
            /\ pc[data_lock[l]] = "log_push"
            /\ logArgs[data_lock[l]].log = l

\* An append holds the lock of a Log and pushes its lines while a request made
\* through that Log waits for a key that never arrives.
C9_Witness ==
    \E t \in Threads, u \in Threads :
        /\ pc[t] = "read_char"
        /\ queue[chan[t]] = <<>>
        /\ pc[u] = "log_push"
        /\ logArgs[u].log = InputLog(chan[t])
        /\ data_lock[InputLog(chan[t])] = u

\* The last n values pushed, the oldest first.
LastPushed(n) == SubSeq(pushed, Len(pushed) - n + 1, Len(pushed))

\* The reverse of a sequence.
Reverse(q) == [j \in 1..Len(q) |-> q[Len(q) + 1 - j]]

\* C14: after N >= C pushes into a RingBuffer of capacity C, peek_last_n(C)
\* returns exactly the final C pushed values in push order.
C14_PeekFullInPushOrder ==
    (peeked.n = RingSize(ring) /\ Len(pushed) >= RingSize(ring)) =>
        peeked.vec = LastPushed(RingSize(ring))

\* C15: after P < C pushes into a RingBuffer of capacity C, peek_last_n(k)
\* with any k < C returns exactly the k most recent of the values pushed so
\* far: no default slot, no older value in their place.
C15_PeekPartial ==
    (peeked.n >= 0 /\ peeked.n < RingSize(ring) /\ Len(pushed) < RingSize(ring)) =>
        /\ peeked.n <= Len(pushed)
        /\ peeked.vec = Reverse(LastPushed(peeked.n))

\* C15 as amended: after P < C pushes, peek_last_n(k) with k <= P returns
\* exactly the k most recent of the values pushed, the most recent first;
\* with k > P it returns k entries of which the first P are the pushed values,
\* the most recent first.
C15_PeekPartialWithinPushed ==
    (/\ peeked.n >= 0
     /\ peeked.n < RingSize(ring)
     /\ Len(pushed) < RingSize(ring)) =>
        /\ Len(peeked.vec) = peeked.n
        /\ IF peeked.n <= Len(pushed)
           THEN peeked.vec = Reverse(LastPushed(peeked.n))
           ELSE SubSeq(peeked.vec, 1, Len(pushed)) = Reverse(pushed)

\* Two of two pushed values peeked from a RingBuffer of capacity three.
C15_Witness ==
    /\ RingSize(ring) = 3
    /\ pushed = <<"x", "y">>
    /\ peeked = [n |-> 2, vec |-> <<"y", "x">>]

\* The threads inside an append on a Log.
Appending(l) ==
    {t \in Threads : pc[t] \in {"file_log", "log_lock", "log_push"} /\ logArgs[t].log = l}

\* The lines the appends of a set of threads have still to push.
RECURSIVE LinesToPush(_)
LinesToPush(T) ==
    IF T = {} THEN 0
    ELSE LET t == CHOOSE u \in T : TRUE
         IN Len(MsgLines(logArgs[t].msg)) + LinesToPush(T \ {t})

\* C11: a failure of the disk mirror is swallowed: whatever _file_log came
\* to, the append goes on to the lock and the push, and every line of every
\* message passed to an append is in the ring buffer once the append has
\* returned, with and without a mirror.
C11_MirrorFailureSwallowed ==
    /\ \A t \in Threads :
           logArgs[t].filed # "none" => pc[t] \in {"log_lock", "log_push"}
    /\ \A l \in Logs :
           (log_data[l].lines.position + LinesToPush(Appending(l))) % RingCapacity
               = owed[l] % RingCapacity

\* An append whose mirror write failed has returned and its lines are in the
\* ring buffer.
C11_Witness ==
    \E l \in Logs :
        /\ swallowed[l] > 0
        /\ Appending(l) = {}
        /\ log_data[l].lines.position = owed[l]
        /\ owed[l] > 0

\* C17: an append of a message of m lines pushes exactly m entries, one for
\* each line in message order, and changes no other entry; with a mirror
\* configured and the write done, the bytes of the message as passed are
\* appended to the mirror file.
C17_AppendPushesLinesAndMirrors ==
    [][\A t \in Threads :
          /\ (pc[t] = "log_push" /\ pc'[t] = "idle") =>
                LET l == logArgs[t].log
                    m == MsgLines(logArgs[t].msg)
                    p == log_data[l].lines.position
                    new == log_data'[l].lines
                    slots == {(p + j) % RingCapacity : j \in 1..Len(m)}
                IN /\ new.position = (p + Len(m)) % RingCapacity
                   /\ \A j \in 1..Len(m) :
                          RingSlot(new, (p + j) % RingCapacity)[3].text = ReplaceTabs(m[j])
                   /\ \A i \in (0..(RingCapacity - 1)) \ slots :
                          RingSlot(new, i) = RingSlot(log_data[l].lines, i)
          /\ (pc[t] = "file_log" /\ pc'[t] # "file_log" /\ logArgs'[t].filed = "all") =>
                mirror'[logArgs[t].log] = mirror[logArgs[t].log] \o logArgs[t].msg
      ]_vars

\* A message of two lines was appended to a Log with a mirror: the ring
\* buffer has two entries and the mirror file the bytes of the message.
C17_Witness ==
    \E l \in Logs :
        /\ log_data[l].disk_log_path # "none"
        /\ Appending(l) = {}
        /\ mirror[l] = <<"h", "\t", "\n", "w">>
        /\ log_data[l].lines.position = 2
        /\ RingSlot(log_data[l].lines, 1)[3].text = <<"h", " ", " ">>
        /\ RingSlot(log_data[l].lines, 2)[3].text = <<"w">>

\* The position of a Log's ring buffer, and the entry at it.
Position(ld, l) == ld[l].lines.position
LastEntry(ld, l) == RingSlot(ld[l].lines, ld[l].lines.position)

\* C12: Log::set on an unbound thread binds the given Log; with the Log
\* already bound it changes nothing and logs nothing; with another Log it
\* leaves the binding and appends one warning entry to the old and to the new
\* Log. After any sequence of set calls Log::get returns the Log of the
\* first.
C12_SetBindsOnce ==
    [][\A t \in Threads :
          /\ (sets'[t] # sets[t]) =>
                LET to == sets'[t][Len(sets'[t])]
                    old == thread_logger[t]
                IN CASE old = "none" ->
                            /\ thread_logger'[t] = to
                            /\ log_data' = log_data
                     [] old = to ->
                            /\ thread_logger'[t] = old
                            /\ log_data' = log_data
                     [] OTHER ->
                            /\ thread_logger'[t] = old
                            /\ \A l \in {old, to} :
                                   /\ Position(log_data', l) = Position(log_data, l) + 1
                                   /\ LastEntry(log_data', l)[1] = LevelPrefix("warn")
                            /\ \A l \in Logs \ {old, to} : log_data'[l] = log_data[l]
          /\ (got'[t] # got[t] /\ sets[t] # <<>>) => got'[t] = sets[t][1]
          /\ \A u \in Threads \ {t} :
                (sets'[t] # sets[t]) => thread_logger'[u] = thread_logger[u]
      ]_vars

\* A thread bound to one Log called set with the other: it is still bound to
\* the first, both Logs have one warning, and get returned the first.
C12_Witness ==
    \E t \in Threads :
        /\ sets[t] = <<"Server Thread", "Main Thread">>
        /\ thread_logger[t] = "Server Thread"
        /\ got[t] = "Server Thread"
        /\ \A l \in Logs : /\ Position(log_data, l) = 1
                           /\ LastEntry(log_data, l)[1] = LevelPrefix("warn")

\* C13: Log::get on a thread on which Log::set was never called panics, and
\* a binding made on one thread is not seen by another.
C13_GetUnboundPanics ==
    \A t \in Threads :
        sets[t] = <<>> =>
            /\ thread_logger[t] = "none"
            /\ got[t] \in {"none", "panic"}

\* One thread is bound and the other, which never called set, panicked in
\* get.
C13_Witness ==
    \E t \in Threads, u \in Threads :
        /\ thread_logger[t] # "none"
        /\ got[t] = thread_logger[t]
        /\ sets[u] = <<>>
        /\ got[u] = "panic"

\* The sum of a sequence of numbers.
RECURSIVE SumSeq(_)
SumSeq(q) == IF q = <<>> THEN 0 ELSE Head(q) + SumSeq(Tail(q))

\* C16: log_widths returns n widths that sum to the terminal width W, each
\* floor(W/n) or floor(W/n)+1, the W mod n larger ones leftmost; two Logs get
\* 40/40 of 80 columns and 41/40 of 81.
C16_ColumnPartition ==
    widths.n >= 1 =>
        LET n == widths.n
            W == widths.columns
            r == widths.result
        IN /\ Len(r) = n
           /\ SumSeq(r) = W
           /\ \A i \in 1..n : r[i] = (W \div n) + (IF i <= W % n THEN 1 ELSE 0)
           /\ (n = 2 /\ W = 80) => r = <<40, 40>>
           /\ (n = 2 /\ W = 81) => r = <<41, 40>>

\* Two Logs in a terminal of 81 columns get 41 and 40 columns.
C16_Witness == widths = [n |-> 2, columns |-> 81, result |-> <<41, 40>>]

\* C20: wait_for_enter blocks until it consumes an Enter on the enabled
\* channel; every other key before it leaves the visible buffer empty and
\* the cursor at 0, for the whole request, and the call returns no text.
C20_WaitForEnter ==
    \A t \in Threads :
        (InRequest(t) /\ mode[t] = "enter") =>
            LET c == chan[t]
                u == KeysOf(used[c])
            IN /\ input_state[c].input_buffer = <<>>
               /\ input_state[c].input_pos = 0
               /\ \A i \in 1..(Len(u) - 1) : u[i] # "Enter"
               /\ IF pc[t] \in {"clear_inputting", "redraw_end"}
                  THEN /\ Len(u) > 0
                       /\ u[Len(u)] = "Enter"
                       /\ result[t] = <<>>
                  ELSE /\ result[t] = NoResult
                       /\ \A i \in 1..Len(u) : u[i] # "Enter"

\* A wait_for_enter that consumed a character and then Enter returns with the
\* buffer still empty.
C20_Witness ==
    \E t \in Threads :
        /\ pc[t] = "redraw_end"
        /\ mode[t] = "enter"
        /\ KeysOf(used[chan[t]]) = <<"a", "Enter">>
        /\ result[t] = <<>>
        /\ input_state[chan[t]].input_buffer = <<>>
        /\ input_state[chan[t]].input_pos = 0

\* C19: redraw requests sent while one is pending are absorbed by it: the
\* render pass that takes a pending redraw leaves none pending, so they cause
\* one pass and not one pass for each request.
C19_RedrawCoalesced ==
    [][(rPc = "recv_timeout" /\ rPc' = "set_disabled" /\ redraw > 0) => redraw' = 0]_vars

\* C18: after a stop request the kill coordinator signals the key-reading
\* thread and the render thread, joins the key-reading thread before the
\* render thread and yields the Manager, and only after both threads have
\* exited: the coordinator never ends without the Manager, it waits for the
\* render thread only when the key-reading thread has exited, and it is done
\* only when both have.
C18_ShutdownYieldsManager ==
    /\ kPc # "panicked"
    /\ kPc = "join_render" => ilPc = "exited"
    /\ kPc = "done" => (ilPc = "exited" /\ rPc = "exited")
    /\ kPc \in {"join_input", "join_render", "done"} =>
           /\ ikill > 0 \/ ilPc = "exited"
           /\ rkill > 0 \/ rPc = "exited"

\* C21: once the key-reading thread has died (a key read failed), the render
\* thread draws no further frame: no pass is completed and followed by the
\* wait for the next one.
C21_NoFrameWithDeadKeyThread ==
    [][ilPc = "panicked" => ~(rPc = "render" /\ rPc' = "recv_timeout")]_vars

\* The keys of the messages an endpoint holds.
QueuedKeys(c) == [j \in 1..Len(queue[c]) |-> queue[c][j].key]

\* C22: every key read is sent to both channels, in the order read, none
\* twice and none left out: what was sent to a channel is the keys read so
\* far (but the one being fanned out and not yet sent to it), and what its
\* endpoint holds is the end of that.
C22_KeyFanOut ==
    /\ Len(keyTrace.read) = nkeys
    /\ ilPc \in {"fanH", "fanL"} => key = keyTrace.read[nkeys]
    /\ \A c \in Channels :
          LET sent == keyTrace.sent[c]
              n == Len(queue[c])
          IN /\ sent = SubSeq(keyTrace.read, 1, SentCount(c))
             /\ n <= Len(sent)
             /\ QueuedKeys(c) = SubSeq(sent, Len(sent) - n + 1, Len(sent))

\* Three keys were read and sent to both channels; the high-priority one
\* holds the last, after a request consumed an earlier one.
C22_Witness ==
    /\ keyTrace.read = <<"a", "Enter", "a">>
    /\ keyTrace.sent["H"] = keyTrace.read
    /\ keyTrace.sent["L"] = keyTrace.read
    /\ QueuedKeys("H") = <<"a">>
    /\ QueuedKeys("L") = keyTrace.read
    /\ Len(used["H"]) > 0

\* C23: in a frame the cursor is shown exactly when the input box of that
\* frame is drawn in its active form.
C23_CursorMatchesBox ==
    frame.done => (frame.cursor.shown <=> frame.inputting)

\* A step of the render pass that takes the lines of one pane; the Log it is
\* taken of and the rows of the pane, from the top.
PaneTaken == rPc = "log_lines" /\ Len(frame'.panes) = Len(frame.panes) + 1
TakenLog == LogBufs[frame.i]
TakenPane == frame'.panes[frame.i]

\* The lines pushed into a Log so far (fewer than its capacity), and the
\* j-th most recent of them.
Pushed(l) == log_data[l].lines.position
Newest(l, j) ==
    RingSlot(log_data[l].lines,
             (log_data[l].lines.position + RingCapacity - (j - 1)) % RingCapacity)

Min(a, b) == IF a < b THEN a ELSE b

\* C24 as stated: the most recently appended line of a Log is on the top
\* row of its pane, and the lines below it are older, row by row.
C24_NewestAtTop ==
    [][PaneTaken =>
          \A j \in 1..Min(Len(TakenPane), Pushed(TakenLog)) :
              TakenPane[j] = Newest(TakenLog, j)]_vars

\* C24 amended: the most recently appended line of a Log is on the bottom
\* row of its pane, and the lines above it are older, row by row.
C24_NewestAtBottom ==
    [][PaneTaken =>
          \A j \in 1..Min(Len(TakenPane), Pushed(TakenLog)) :
              TakenPane[Len(TakenPane) + 1 - j] = Newest(TakenLog, j)]_vars

\* A finished frame whose pane of main_log has two rows, the last line
\* appended below the one before it.
C24_Witness ==
    /\ frame.done
    /\ Len(frame.panes[1]) = 2
    /\ Pushed("Main Thread") >= 2
    /\ frame.panes[1][2] = Newest("Main Thread", 1)
    /\ frame.panes[1][1] = Newest("Main Thread", 2)
    /\ frame.panes[1][1] # frame.panes[1][2]

\* C28: appends to one Log are serialized. When an append returns, the last
\* lines of the Log are the lines of its message, in message order, the
\* first with the prefix of the level; and the render pass takes the lines
\* of a pane only when every append to that Log has pushed none or all of
\* its lines.
C28_AppendsSerialized ==
    [][/\ \A t \in Threads :
             (pc[t] = "log_line" /\ pc'[t] = "idle") =>
                 LET l == logArgs[t].log
                     m == MsgLines(logArgs[t].msg)
                     k == Len(m)
                 IN \A j \in 1..k :
                        Newest(l, k + 1 - j) =
                            <<IF j = 1 THEN LevelPrefix(logArgs[t].level)
                                       ELSE PrefixEmpty(logArgs[t].level),
                              " ",
                              [style |-> logArgs[t].level, text |-> ReplaceTabs(m[j])]>>
       /\ PaneTaken =>
             \A t \in Threads :
                 (pc[t] = "log_line" /\ logArgs[t].log = TakenLog) =>
                     Len(logLoop[t].msg_lines) \in {0, Len(MsgLines(logArgs[t].msg))}]_vars

\* The main thread has pushed one of the two lines of its message into a
\* Log; the other thread waits to append to the same Log, and the render
\* pass waits to take its lines.
C28_Witness ==
    \E l \in Logs :
        /\ pc["main"] = "log_line" /\ logArgs["main"].log = l
        /\ Len(MsgLines(logArgs["main"].msg)) = 2
        /\ Len(logLoop["main"].msg_lines) = 1
        /\ pc["other"] = "log_lock" /\ logArgs["other"].log = l
        /\ rPc = "log_lines" /\ frame.rows >= 5 /\ TakenLog = l

\* C25: the step of a render pass that decides on the cursor hides it when
\* the channel of the frame has no active request; otherwise it shows it on
\* row rows - 2 at column 2 + prompt length + cursor offset of the snapshot
\* the box was drawn of, which is the end of the text of an active box.
C25_CursorPlacement ==
    [][(rPc = "cursor" /\ frame'.done) =>
          IF input_in_use[frame.handler]
          THEN /\ frame'.cursor.shown
               /\ frame'.cursor.col =
                      2 + Len(frame.data.input_prompt) + frame.data.input_pos
               /\ frame'.cursor.row = frame.rows - 2
               /\ frame.inputting => frame'.cursor.col = 2 + Len(frame.content.text)
          ELSE ~frame'.cursor.shown]_vars

\* A finished frame of a request with one character typed: the cursor is
\* behind the prompt and the character.
C25_Witness ==
    /\ frame.done
    /\ frame.inputting
    /\ frame.content.text = Prompt \o <<"a">>
    /\ frame.cursor = [shown |-> TRUE, col |-> 6, row |-> frame.rows - 2]

\* C26: whatever the size of the terminal, the render pass asks a Log's
\* ring buffer for no more lines than it holds: where log_lines is about to
\* peek, rows - 5 is at most the capacity, 256.
C26_PeekWithinCapacity ==
    (rPc = "log_lines" /\ frame.rows >= 5) =>
        frame.rows - 5 <= RingSize(log_data[LogBufs[frame.i]].lines)

\* C27: the channel of a frame is the high-priority one exactly when that
\* one is requesting as the pass chooses, else the low-priority one; and the
\* title of the box names the Log that requests on that channel while the
\* channel is requesting, and is the neutral title otherwise.
C27_BoxChannelAndTitle ==
    [][/\ (rPc = "render" /\ rPc' = "log_header") =>
             frame'.handler = (IF input_in_use["H"] THEN "H" ELSE "L")
       /\ (rPc = "input_box" /\ rPc' = "cursor") =>
             frame'.title = (IF input_in_use[frame.handler]
                             THEN <<" Input (", InputLog(frame.handler), ") ">>
                             ELSE <<" Input ">>)]_vars

\* The frame the render pass has finished shows the request state as it is.
FrameShowsState ==
    /\ frame.done
    /\ frame.handler = (IF input_in_use["H"] THEN "H" ELSE "L")
    /\ frame.inputting = input_in_use[frame.handler]
    /\ frame.cursor.shown = frame.inputting
    /\ frame.inputting => frame.data = input_state[frame.handler]

\* C29: a change of the request state of a channel (a request starts or
\* completes, a key changes the buffer) is followed by a redraw signal
\* before the requesting thread receives another key or returns; and with
\* the render thread running, a frame that shows the state as it is keeps
\* being drawn.
C29_ChangeThenRedraw ==
    /\ [](\A c \in Channels :
              unsignalled[c] =>
                  /\ inputting[c] \in Threads
                  /\ pc[inputting[c]] \in {"set_inputting", "wait_for_enabled",
                                           "redraw_end"})
    /\ []<>FrameShowsState

\* A key has changed the buffer of a request and the signal of the round
\* is sent: the thread is about to receive the next key.
C29_Witness ==
    /\ pc["other"] = "read_char"
    /\ input_state["H"].input_buffer = <<"a">>
    /\ ~unsignalled["H"]
    /\ redraw > 0

\* C30: rendering never blocks on input. A thread that waits in _read_char
\* for a key holds no lock of a Log, and every render pass that begins is
\* finished, also with requests waiting for keys that never arrive.
C30_RenderNeverBlocksOnInput ==
    /\ [](\A t \in Threads :
              pc[t] = "read_char" => \A l \in Logs : data_lock[l] # t)
    /\ (rPc = "render") ~> (rPc = "recv_timeout" /\ frame.done)

\* Requests wait for a key on both channels, and a pass has drawn the
\* active box of the high-priority one.
C30_Witness ==
    /\ pc["main"] = "read_char" /\ chan["main"] = "L" /\ queue["L"] = <<>>
    /\ pc["other"] = "read_char" /\ chan["other"] = "H" /\ queue["H"] = <<>>
    /\ frame.done /\ frame.handler = "H" /\ frame.inputting
    /\ rPc = "recv_timeout"

\* A caller that waits inside a request for something only the dashboard
\* threads give: a key in recv of _read_char, or the end of the gate in
\* wait_for_enabled.
Blocked(t) ==
    \/ pc[t] = "read_char" /\ queue[chan[t]] = <<>>
    \/ pc[t] = "wait_for_enabled" /\ IsDisabled(chan[t])

\* The key-reading thread has taken the kill message the coordinator sent.
KeyThreadStopped ==
    kPc \in {"send_rkill", "join_input", "join_render", "done"} /\ ikill = 0

\* A step of the stop: the request, a step of the coordinator, or a thread's
\* receipt of its kill message.
StopStep == stop' # stop \/ kPc' # kPc \/ ikill' # ikill \/ rkill' # rkill

\* C31: a stop request cancels no outstanding input request: no step of the
\* stop changes a caller's position, key or result, sends a key or releases
\* a channel; once the key-reading thread is stopped no key is sent; and a
\* caller blocked when both threads are stopped stays blocked without a
\* result.
C31_StopCancelsNoRequest ==
    [][/\ StopStep =>
              UNCHANGED <<pc, cur, result, queue, inputting, input_in_use,
                          input_disabled, input_state>>
       /\ KeyThreadStopped => \A c \in Channels : Len(queue'[c]) <= Len(queue[c])
       /\ \A t \in Threads :
              (KeyThreadStopped /\ rPc = "exited" /\ Blocked(t)) =>
                  /\ Blocked(t)'
                  /\ result'[t] = NoResult]_vars

\* The coordinator has joined both threads and yielded the Manager while a
\* request waits for a key on an empty endpoint.
C31_Witness ==
    /\ kPc = "done"
    /\ pc["other"] = "read_char"
    /\ queue[chan["other"]] = <<>>
    /\ input_in_use[chan["other"]]
    /\ result["other"] = NoResult

\* Key k ends a request of input_fn m or is appended to its buffer.
Applies(m, k) == k = "Enter" \/ (m \in {"string", "password"} /\ k \in KeyChars)

\* C32: no keystroke is applied to, or ends, both a high-priority and a
\* low-priority request: the key a low-priority request is about to match,
\* sent to a channel that was never disabled since the request began, is not
\* a key the outstanding high-priority request has consumed or is consuming.
C32_NoKeyForBothPriorities ==
    \A t \in Threads, u \in Threads :
        (/\ chan[t] = "L" /\ pc[t] = "match_key"
         /\ Applies(mode[t], cur[t].key)
         /\ ~cur[t].dis /\ ~gated["L"]
         /\ chan[u] = "H" /\ InRequest(u)) =>
            /\ \A i \in 1..Len(used["H"]) :
                   used["H"][i].id = cur[t].id => ~Applies(mode[u], used["H"][i].key)
            /\ (pc[u] = "match_key" /\ cur[u].id = cur[t].id) =>
                   ~Applies(mode[u], cur[u].key)

\* The values _InputData of channel c has had since the reset of its latest
\* request, in runs whose keys are characters and Enter: the buffer only
\* grows, so they are the resets followed by a prefix of the buffer.
RequestStates(c) ==
    {[input_state[c] EXCEPT !.input_buffer = SubSeq(@, 1, n), !.input_pos = n] :
        n \in 0..Len(input_state[c].input_buffer)}

\* C33: a frame whose box is drawn in the active form shows the prompt,
\* requester and buffer of the request that is active when the frame reads
\* the requesting flag: when input_box reads the flag as true, the clone it
\* draws is a value _InputData has had since the reset of that request.
C33_ActiveBoxShowsActiveRequest ==
    [][(rPc = "input_box" /\ rPc' = "cursor" /\ frame'.inputting) =>
           frame.data \in RequestStates(frame.handler)]_vars

\* The cursor offset of a channel is the number of characters of its buffer.
PosIsLen ==
    \A c \in Channels :
        /\ input_state[c].input_pos = Len(input_state[c].input_buffer)
        /\ input_state[c].input_pos >= 0

\* What one step of caller t does to the buffer and the offset of its channel.
PosSteps(t) ==
    LET d == input_state[chan[t]]
        e == input_state'[chan[t]]
        by(n) == /\ Len(e.input_buffer) = Len(d.input_buffer) + n
                 /\ e.input_pos = d.input_pos + n
    IN /\ (pc[t] = "lock" /\ pc'[t] = "set_inputting") =>
              (e.input_buffer = <<>> /\ e.input_pos = 0)
       /\ (pc[t] = "match_key" /\ pc'[t] # "match_key"
              /\ mode[t] \in {"string", "password"}) =>
              /\ cur[t].key \in KeyChars => by(1)
              /\ (cur[t].key = "Backspace" /\ d.input_buffer # <<>>) => by(-1)
              /\ (cur[t].key = "Backspace" /\ d.input_buffer = <<>>) => e = d

\* C34: in every reachable state the cursor offset of a channel equals the
\* number of characters in its buffer and is not negative; a character key
\* increases both by one, a Backspace on a non-empty buffer decreases both by
\* one, a Backspace on an empty buffer changes neither, and the start of a
\* request resets both.
C34_CursorOffsetIsBufferLength ==
    []PosIsLen /\ [][\A t \in Threads : PosSteps(t)]_vars

\* A request has taken a character and two Backspaces, the second on the
\* empty buffer, and stands at offset 0.
C34_Witness ==
    /\ pc["other"] = "wait_for_enabled"
    /\ KeysOf(used["H"]) = <<"a", "Backspace", "Backspace">>
    /\ input_state["H"].input_buffer = <<>>
    /\ input_state["H"].input_pos = 0

\* An Enter key waits in the endpoint of channel c or is being matched.
EnterDelivered(c) ==
    \/ \E i \in 1..Len(queue[c]) : queue[c][i].key = "Enter"
    \/ \E t \in Threads : chan[t] = c /\ pc[t] = "match_key" /\ cur[t].key = "Enter"

\* C35: the high-priority channel is never gated by the low-priority one:
\* its disabled flag is never set, the start of its request waits only for
\* its own receiver mutex, and a request on it that has begun and has an
\* Enter key delivered comes to its result, whatever the low-priority
\* channel does.
C35_HighPriorityNeverGated ==
    /\ [](~input_disabled["H"])
    /\ [](\A t \in Threads :
             (pc[t] = "lock" /\ chan[t] = "H" /\ inputting["H"] = NoThread) =>
                 ENABLED Begin(t))
    /\ \A t \in Threads :
           (InRequest(t) /\ chan[t] = "H" /\ EnterDelivered("H")) ~>
               (result[t] # NoResult)

\* A high-priority request has begun while a low-priority request holds its
\* channel and waits for a key.
C35_Witness ==
    /\ pc["main"] = "read_char" /\ chan["main"] = "L" /\ inputting["L"] = "main"
    /\ pc["other"] = "redraw_end" /\ chan["other"] = "H"
    /\ input_in_use["L"]
    /\ input_disabled["L"]

\* C36: two appends of different messages to a Log with a disk mirror leave
\* the bytes of the messages in the mirror file in the order of their lines in
\* the ring buffer: when the file holds message a and then message b, whole,
\* and the buffer holds the lines of both, the lines of a come first.
C36_MirrorOrderIsRingOrder ==
    \A l \in Logs, a \in LogMsgs, b \in LogMsgs :
        (/\ a # b
         /\ Appending(l) = {}
         /\ mirror[l] = a \o b
         /\ log_data[l].lines.position = Len(MsgLines(a)) + Len(MsgLines(b))) =>
            \A j \in 1..Len(MsgLines(a)) :
                RingSlot(log_data[l].lines, j)[3].text = ReplaceTabs(MsgLines(a)[j])

\* The workers spawned whose key has not been taken by a join.
Outstanding == readkey.reading + Len(readkey.returned)

\* The key input_loop holds between the join and the end of the fan-out.
InFanOut == IF ilPc \in {"fanH", "fanL"} THEN <<key>> ELSE <<>>

\* C37: while the key-reading thread runs it has at most one worker
\* outstanding, and none from the join to the end of the fan-out, so it
\* spawns only when the previous worker's key has been sent to both
\* channels; every key read has been sent to both channels in read order, is
\* being fanned out, or is the one of the worker still to be joined; and once
\* the thread has seen the kill, at most the one key of the worker left
\* behind is read and not sent.
C37_OneWorkerEveryKeyFanned ==
    /\ ~Ended(ilPc) =>
           /\ Outstanding <= 1
           /\ ilPc \in {"read_key", "fanH", "fanL"} => Outstanding = 0
           /\ ilPc = "wait" => Outstanding = 1
           /\ keyTrace.read = keyTrace.sent["L"] \o InFanOut \o readkey.returned
    /\ ilPc = "read_key" => (key = "none" /\ keyTrace.sent["H"] = keyTrace.read)
    /\ keyTrace.sent["H"] =
           keyTrace.sent["L"] \o (IF ilPc = "fanL" THEN <<key>> ELSE <<>>)
    /\ Ended(ilPc) =>
           /\ Len(keyTrace.read) <= Len(keyTrace.sent["L"]) + 1
           /\ keyTrace.sent["L"] = SubSeq(keyTrace.read, 1, Len(keyTrace.sent["L"]))

\* The second worker reads while the key of the first has been sent to both
\* channels.
C37_Witness ==
    /\ ilPc = "wait"
    /\ readkey = [reading |-> 1, returned |-> <<>>]
    /\ keyTrace.read = <<"a">>
    /\ keyTrace.sent = [c \in Channels |-> <<"a">>]

\* C38: the requesting flag of a channel is true only while a thread is
\* inside a request on the channel and holds its receiver mutex.
C38_FlagOnlyUnderLock ==
    \A c \in Channels :
        input_in_use[c] =>
            \E t \in Threads : inputting[c] = t /\ chan[t] = c /\ InRequest(t)

\* What one push does to the RingBuffer specified on its own.
PushEffect ==
    LET S == RingSize(ring)
        p == (ring.position + 1) % S
    IN /\ ring'.size = S
       /\ ring'.position = p
       /\ RingSlot(ring', p) = pushed'[Len(pushed')]
       /\ \A i \in (0..(S - 1)) \ {p} : RingSlot(ring', i) = RingSlot(ring, i)
       /\ Len(pushed) >= S => RingSlot(ring, p) = pushed[Len(pushed) - S + 1]

\* C39: push always succeeds, writes the pushed value into exactly one slot
\* and moves the write cursor to it, leaves every other slot as it was, writes
\* over the oldest value held once as many values as the capacity have been
\* pushed, and keeps the cursor within 0..capacity-1.
C39_PushWritesOneSlot ==
    /\ [](ring.position \in 0..(RingSize(ring) - 1))
    /\ [](\A element \in RingValues : ENABLED RingPushOp(element))
    /\ [][pushed' # pushed => PushEffect]_vars

\* A buffer of three slots after four pushes: the fourth value stands where
\* the first, a different one, stood.
C39_Witness ==
    /\ RingSize(ring) = 3
    /\ Len(pushed) = 4
    /\ ring.position = 1
    /\ RingSlot(ring, 1) = pushed[4]
    /\ pushed[1] # pushed[4]

====
